---- MODULE Spec2Model ----
(***************************************************************************)
(* Model of the rmf_traffic_ros2 schedule node (ScheduleNode) and of the   *)
(* parts of the rmf_traffic schedule database, mirror and negotiation      *)
(* library that its handlers drive.                                        *)
(***************************************************************************)
EXTENDS Integers, Sequences, FiniteSets, TLC

\* ------------------------------------------------------------------------
\* Bounds of the model
\* ------------------------------------------------------------------------

\* Width of the version counters of the model (64 in the program).
VersionBits == 4

\* Largest itinerary version an edit message carries.
MaxItineraryVersion == 3

\* Number of edits the database applies in one behaviour.
MaxDbVersion == 3

\* Number of identity keys (owner, name) that clients register.
MaxParticipants == 3

\* Largest trajectory slot of a route a client submits.
MaxTraj == 1

\* Largest route id an erase message names.
MaxRouteId == 2

\* The most messages a negotiation room caches.
MaxCache == 4

\* The steady clock runs from 0 to MaxTime.
MaxTime == 3

\* query_grace_period, in ticks of the clock.
GracePeriod == 1

\* The largest query id a subscriber names.
MaxQueryId == 4

\* The most FailOverEvent messages a Writer receives.
MaxReconnect == 2

\* The most fleets added to an adapter.
MaxFleets == 2

\* An absent optional value; Some(v) is a present one and v[1] its content.
None == << >>

Some(v) == << v >>

Modulus == 2 ^ VersionBits

Half == 2 ^ (VersionBits - 1)

Versions == 0 .. (Modulus - 1)

Maps == {"mapA", "mapB"}

Trajs == 0 .. MaxTraj

Keys == 1 .. MaxParticipants

ParticipantIds == 0 .. MaxParticipants

\* A route as a client submits it: a map name and an (opaque) trajectory.
RouteInputs == [map : Maps, traj : Trajs]

Delays == {-1, 1}

\* ------------------------------------------------------------------------
\* Version space: rmf_utils::modular
\* ------------------------------------------------------------------------

\* a < b iff (a - b), read as a signed integer of the counter's width, is
\* negative.
ModLess(a, b) == ((a - b) % Modulus) >= Half

ModLessEq(a, b) == a = b \/ ModLess(a, b)

Inc(v) == (v + 1) % Modulus

Dec(v) == (v + Modulus - 1) % Modulus

\* ------------------------------------------------------------------------
\* Sequence helpers
\* ------------------------------------------------------------------------

RECURSIVE SeqFilterIds(_, _)
\* The routes of itinerary s whose ids are not in the set ids.
SeqFilterIds(s, ids) ==
  IF s = << >> THEN << >>
  ELSE IF Head(s).id \in ids THEN SeqFilterIds(Tail(s), ids)
       ELSE << Head(s) >> \o SeqFilterIds(Tail(s), ids)

RECURSIVE SeqFilterMaps(_, _)
\* The routes of itinerary s that lie on one of the maps.
SeqFilterMaps(s, maps) ==
  IF s = << >> THEN << >>
  ELSE IF Head(s).map \in maps THEN << Head(s) >> \o SeqFilterMaps(Tail(s), maps)
       ELSE SeqFilterMaps(Tail(s), maps)

\* Routes of a message stamped with fresh route ids first+1, first+2, ...
AssignIds(routes, first) ==
  [i \in 1 .. Len(routes) |->
     [id |-> first + i, map |-> routes[i].map, traj |-> routes[i].traj]]

Range(f) == {f[x] : x \in DOMAIN f}

\* ------------------------------------------------------------------------
\* Schedule database (rmf_traffic::schedule::Database)
\* ------------------------------------------------------------------------

\* The entry of a participant right after registration.
NewEntry ==
  [itin |-> << >>, latest |-> 0, ranges |-> {}, last_route_id |-> 0,
   delay |-> 0]

\* The versions from a up to b, counting upwards from a (modular).
Interval(a, b) == {(a + i) % Modulus : i \in 0 .. ((b - a) % Modulus)}

InRange(r, v) == v \in Interval(r[1], r[2])

InRanges(ranges, v) == \E r \in ranges : InRange(r, v)

\* How the database classifies an incoming itinerary version v against the
\* entry e: "next" (v = L+1), "gap" (v > L+1), "fill" (v names a version of
\* an inconsistency range) or "duplicate" (v <= L and already received).
Classify(e, v) ==
  IF v = Inc(e.latest) THEN "next"
  ELSE IF ModLess(e.latest, v) THEN "gap"
  ELSE IF InRanges(e.ranges, v) THEN "fill"
  ELSE "duplicate"

\* The inconsistency ranges after version v has been removed from them.
ShrinkRanges(ranges, v) ==
  LET hit == {r \in ranges : InRange(r, v)}
      left == {<< r[1], Dec(v) >> : r \in {x \in hit : x[1] # v}}
      right == {<< Inc(v), r[2] >> : r \in {x \in hit : x[2] # v}}
  IN (ranges \ hit) \cup left \cup right

\* Version bookkeeping of an edit that is not a duplicate.
Track(e, v) ==
  LET c == Classify(e, v) IN
  IF c = "next" THEN [e EXCEPT !.latest = v]
  ELSE IF c = "gap"
    THEN [e EXCEPT !.latest = v,
                   !.ranges = @ \cup {<< Inc(e.latest), Dec(v) >>}]
  ELSE IF c = "fill" THEN [e EXCEPT !.ranges = ShrinkRanges(@, v)]
  ELSE e

\* The payload of an edit applied to an entry.  kind is one of "set",
\* "extend", "delay", "erase", "clear"; routes, ids and d are its payload.
ApplyPayload(e, kind, routes, ids, d) ==
  IF kind = "set"
    THEN [e EXCEPT !.itin = AssignIds(routes, e.last_route_id),
                   !.last_route_id = @ + Len(routes)]
  ELSE IF kind = "extend"
    THEN [e EXCEPT !.itin = @ \o AssignIds(routes, e.last_route_id),
                   !.last_route_id = @ + Len(routes)]
  ELSE IF kind = "delay" THEN [e EXCEPT !.delay = @ + d]
  ELSE IF kind = "erase" THEN [e EXCEPT !.itin = SeqFilterIds(@, ids)]
  ELSE [e EXCEPT !.itin = << >>]

\* The change-log entry of an applied edit.
ChangeEntry(version, p, e, kind, routes, ids, d) ==
  [version |-> version, participant |-> p, kind |-> kind,
   routes |-> IF kind \in {"set", "extend"}
                THEN AssignIds(routes, e.last_route_id) ELSE << >>,
   ids |-> IF kind = "erase" THEN ids ELSE {},
   delay |-> IF kind = "delay" THEN d ELSE 0]

\* The database after construction: no participant, version 0, empty log.
EmptyDatabase ==
  [entries |-> << >>, descriptions |-> << >>, version |-> 0, log |-> << >>]

\* One edit operation of the database on the state
\* D = [entries, descriptions, version, log]; a duplicate version leaves D
\* as it is.
DbEdit(D, p, v, kind, routes, ids, d) ==
  LET e == D.entries[p] IN
  IF Classify(e, v) = "duplicate" THEN D
  ELSE [D EXCEPT
          !.entries[p] = ApplyPayload(Track(e, v), kind, routes, ids, d),
          !.version = Inc(D.version),
          !.log = Append(D.log,
                    ChangeEntry(Inc(D.version), p, e, kind, routes, ids, d))]

\* Database::register_participant: a new entry under the next unused id.
DbRegister(D, id, desc) ==
  [D EXCEPT !.entries = (id :> NewEntry) @@ D.entries,
            !.descriptions = (id :> desc) @@ D.descriptions]

\* Database::itinerary_version
DbItineraryVersion(D, p) == D.entries[p].latest

\* ------------------------------------------------------------------------
\* Patches and mirrors (Database::changes, Database::query, Mirror::update)
\* ------------------------------------------------------------------------

\* A view of one participant in a mirror; a mirror maps every participant id
\* to its view.
EmptyView == [itin |-> << >>, delay |-> 0]

EmptyMirror == [p \in ParticipantIds |-> EmptyView]

\* A change-log entry as a query on the maps in q sees it.
FilterEntry(c, q) == [c EXCEPT !.routes = SeqFilterMaps(@, q)]

\* An entry the query lets through: every change but an extension none of
\* whose routes is on a map of q.
Relevant(c, q) == c.kind = "extend" => SeqFilterMaps(c.routes, q) # << >>

RECURSIVE LogSince(_, _, _)
\* The entries of the log after version since, filtered by the query q.
LogSince(log, q, since) ==
  IF log = << >> THEN << >>
  ELSE IF ModLess(since, Head(log).version) /\ Relevant(Head(log), q)
         THEN << FilterEntry(Head(log), q) >> \o LogSince(Tail(log), q, since)
       ELSE LogSince(Tail(log), q, since)

RECURSIVE Snapshot(_, _, _)
\* The synthetic full patch: for each participant of ids (in increasing
\* order) its current routes on the maps of q and its cumulative delay.
Snapshot(D, q, ids) ==
  IF ids = {} THEN << >>
  ELSE LET p == CHOOSE x \in ids : \A y \in ids : x <= y
           e == D.entries[p]
           s == [version |-> D.version, participant |-> p, kind |-> "set",
                 routes |-> SeqFilterMaps(e.itin, q), ids |-> {}, delay |-> 0]
           t == [version |-> D.version, participant |-> p, kind |-> "delay",
                 routes |-> << >>, ids |-> {}, delay |-> e.delay]
       IN << s >> \o (IF e.delay = 0 THEN << >> ELSE << t >>)
            \o Snapshot(D, q, ids \ {p})

\* Database::changes(query, since): the patch from since+1 to the current
\* version, or the full patch with the cull marker when since is None.
Changes(D, q, since) ==
  IF since = None
    THEN [entries |-> Snapshot(D, q, DOMAIN D.entries), cull |-> TRUE,
          latest |-> D.version]
    ELSE [entries |-> LogSince(D.log, q, since[1]), cull |-> FALSE,
          latest |-> D.version]

\* One patch entry applied to the view of its participant.
ApplyEntry(view, c) ==
  IF c.kind = "set" THEN [view EXCEPT !.itin = c.routes]
  ELSE IF c.kind = "extend" THEN [view EXCEPT !.itin = @ \o c.routes]
  ELSE IF c.kind = "delay" THEN [view EXCEPT !.delay = @ + c.delay]
  ELSE IF c.kind = "erase" THEN [view EXCEPT !.itin = SeqFilterIds(@, c.ids)]
  ELSE [view EXCEPT !.itin = << >>]

RECURSIVE ApplyEntries(_, _)
ApplyEntries(m, entries) ==
  IF entries = << >> THEN m
  ELSE ApplyEntries(
         [m EXCEPT ![Head(entries).participant] = ApplyEntry(@, Head(entries))],
         Tail(entries))

\* Mirror::update(patch): a culling patch replaces the mirror's content.
MirrorUpdate(m, patch) ==
  ApplyEntries(IF patch.cull THEN EmptyMirror ELSE m, patch.entries)

\* The database's current state as a query on the maps in q sees it.
FilteredState(D, q) ==
  [p \in ParticipantIds |->
     IF p \in DOMAIN D.entries
       THEN [itin |-> SeqFilterMaps(D.entries[p].itin, q),
             delay |-> D.entries[p].delay]
       ELSE EmptyView]

\* The ids of the routes of participant p that the log added or, by a delay,
\* modified after version after.
ChangedIds(D, p, after) ==
  LET recent == {i \in 1 .. Len(D.log) :
                   /\ D.log[i].participant = p
                   /\ ModLess(after, D.log[i].version)}
  IN IF \E i \in recent : D.log[i].kind = "delay"
       THEN {r.id : r \in Range(D.entries[p].itin)}
       ELSE UNION {{r.id : r \in Range(D.log[i].routes)} : i \in recent}

\* Database::query(query_all, after): the routes added or modified after
\* version after, each with its participant and description.
ViewChanges(D, after) ==
  UNION {
    {[participant |-> p, unresponsive |-> D.descriptions[p].unresponsive,
      map |-> r.map, traj |-> r.traj + D.entries[p].delay] :
        r \in {x \in Range(D.entries[p].itin) :
                 x.id \in ChangedIds(D, p, after)}} :
    p \in DOMAIN D.entries}

\* ------------------------------------------------------------------------
\* Negotiation tables (rmf_traffic::schedule::Negotiation)
\* ------------------------------------------------------------------------

\* The version of a table nobody has submitted to yet: one before 0.
InitialTableVersion == Dec(0)

\* A table: the version and finish time of its current submission (finish is
\* None while there is none) and its status flags.
NewTable ==
  [version |-> InitialTableVersion, finish |-> None, rejected |-> FALSE,
   forfeited |-> FALSE]

SeqSet(s) == {s[i] : i \in 1 .. Len(s)}

IsPrefix(s, t) == Len(s) <= Len(t) /\ SubSeq(t, 1, Len(s)) = s

\* tables without the proper descendants of the table at path s.
ClearDescendants(tables, s) ==
  [t \in {x \in DOMAIN tables : ~(IsPrefix(s, x) /\ x # s)} |-> tables[t]]

\* Fresh child tables of the table at path s, one per remaining participant.
MakeDescendants(P, s) ==
  [t \in {Append(s, q) : q \in P \ SeqSet(s)} |-> NewTable]

\* Negotiation::make: one root table per participant.
NegotiationMake(P) ==
  [participants |-> P, tables |-> [t \in {<< p >> : p \in P} |-> NewTable]]

\* A table is open with a submission.
Good(t) == t.finish # None /\ ~t.rejected /\ ~t.forfeited

\* Negotiation::add_participant: a new root table, and a new child under
\* every table that holds a submission.
AddParticipant(N, q) ==
  LET parents == {s \in DOMAIN N.tables : Good(N.tables[s])}
      fresh == {<< q >>} \cup {Append(s, q) : s \in parents}
  IN [participants |-> N.participants \cup {q},
      tables |-> [t \in fresh |-> NewTable] @@ N.tables]

\* Table::submit: refused when the version is not newer than the table's or
\* the table is forfeited; otherwise the submission replaces the old one and
\* the table gets fresh children.
Submit(N, s, finish, v) ==
  LET t == N.tables[s] IN
  IF t.forfeited \/ ModLessEq(v, t.version) THEN N
  ELSE [N EXCEPT !.tables =
          MakeDescendants(N.participants, s) @@
          [ClearDescendants(N.tables, s) EXCEPT
             ![s] = [version |-> v, finish |-> Some(finish), rejected |-> FALSE,
                     forfeited |-> FALSE]]]

\* Table::reject: refused for an older version; otherwise the submission is
\* marked rejected and its children are dropped.
Reject(N, s, v) ==
  IF ModLess(v, N.tables[s].version) THEN N
  ELSE [N EXCEPT !.tables =
          [ClearDescendants(N.tables, s) EXCEPT ![s].rejected = TRUE]]

\* Table::forfeit: refused for an older version; otherwise the branch is
\* given up.
Forfeit(N, s, v) ==
  IF ModLess(v, N.tables[s].version) THEN N
  ELSE [N EXCEPT !.tables =
          [ClearDescendants(N.tables, s) EXCEPT ![s].forfeited = TRUE]]

RECURSIVE Walk(_, _, _)
\* Follows the versioned keys from the table path: "deprecated" when a key
\* is older than its table, "absent" when the table does not exist or the
\* key is newer than it.
Walk(tables, keys, path) ==
  IF keys = << >> THEN [status |-> "found", path |-> path]
  ELSE LET np == Append(path, Head(keys).participant) IN
       IF np \notin DOMAIN tables THEN [status |-> "absent", path |-> << >>]
       ELSE IF ModLess(Head(keys).version, tables[np].version)
         THEN [status |-> "deprecated", path |-> << >>]
       ELSE IF Head(keys).version # tables[np].version
         THEN [status |-> "absent", path |-> << >>]
       ELSE Walk(tables, Tail(keys), np)

\* Negotiation::find(sequence)
Find(N, keys) ==
  IF keys = << >> THEN [status |-> "absent", path |-> << >>]
  ELSE Walk(N.tables, keys, << >>)

\* Negotiation::find(for_participant, to_accommodate)
FindFor(N, for_participant, to_accommodate) ==
  LET w == Walk(N.tables, to_accommodate, << >>) IN
  IF w.status # "found" THEN w
  ELSE IF Append(w.path, for_participant) \in DOMAIN N.tables
    THEN [status |-> "found", path |-> Append(w.path, for_participant)]
  ELSE [status |-> "absent", path |-> << >>]

\* The fully submitted root-to-leaf paths.
ReadyLeaves(N) ==
  {s \in DOMAIN N.tables :
     /\ Len(s) = Cardinality(N.participants)
     /\ \A i \in 1 .. Len(s) : Good(N.tables[SubSeq(s, 1, i)])}

\* Negotiation::ready
Ready(N) == ReadyLeaves(N) # {}

RECURSIVE Terminated(_, _)
\* The branch below the table at path s is terminated: forfeited, or
\* submitted with every child branch terminated.
Terminated(N, s) ==
  LET t == N.tables[s] IN
  \/ t.forfeited
  \/ /\ Good(t)
     /\ \A q \in N.participants \ SeqSet(s) :
          /\ Append(s, q) \in DOMAIN N.tables
          /\ Terminated(N, Append(s, q))

\* Negotiation::complete
Complete(N) == \A p \in N.participants : Terminated(N, << p >>)

\* The latest finish time along the branch that ends at path s.
BranchFinish(N, s) ==
  LET fs == {N.tables[SubSeq(s, 1, i)].finish[1] : i \in 1 .. Len(s)}
  IN CHOOSE f \in fs : \A g \in fs : g <= f

RECURSIVE LexLess(_, _)
LexLess(s, t) ==
  IF s = << >> THEN t # << >>
  ELSE IF t = << >> THEN FALSE
  ELSE IF Head(s) # Head(t) THEN Head(s) < Head(t)
  ELSE LexLess(Tail(s), Tail(t))

\* Negotiation::evaluate(QuickestFinishEvaluator): the ready branch with the
\* smallest finish time, ties broken by the order of the participant ids.
Evaluate(N) ==
  CHOOSE s \in ReadyLeaves(N) :
    \A t \in ReadyLeaves(N) \ {s} :
      \/ BranchFinish(N, s) < BranchFinish(N, t)
      \/ BranchFinish(N, s) = BranchFinish(N, t) /\ LexLess(s, t)

\* Table::sequence: the versioned keys of the branch that ends at path s.
TableSequence(N, s) ==
  [i \in 1 .. Len(s) |->
     [participant |-> s[i], version |-> N.tables[SubSeq(s, 1, i)].version]]

\* ------------------------------------------------------------------------
\* Negotiation room (NegotiationRoom) and its message caches
\* ------------------------------------------------------------------------

Last(s) == s[Len(s)]

NewRoom(P) ==
  [negotiation |-> NegotiationMake(P), cached_proposals |-> << >>,
   cached_rejections |-> << >>, cached_forfeits |-> << >>]

RECURSIVE ProposalPass(_, _, _, _)
\* One pass over the cached proposals: a deprecated one is dropped, one whose
\* table exists is submitted and dropped, any other is kept.
ProposalPass(N, todo, kept, changed) ==
  IF todo = << >> THEN [negotiation |-> N, cache |-> kept, changed |-> changed]
  ELSE LET m == Head(todo)
           f == FindFor(N, m.for_participant, m.to_accommodate)
       IN IF f.status = "deprecated"
            THEN ProposalPass(N, Tail(todo), kept, changed)
          ELSE IF f.status = "found"
            THEN ProposalPass(Submit(N, f.path, m.finish, m.proposal_version),
                              Tail(todo), kept, TRUE)
          ELSE ProposalPass(N, Tail(todo), Append(kept, m), changed)

RECURSIVE RejectionPass(_, _, _, _)
RejectionPass(N, todo, kept, changed) ==
  IF todo = << >> THEN [negotiation |-> N, cache |-> kept, changed |-> changed]
  ELSE LET m == Head(todo)
           f == Find(N, m.table)
       IN IF f.status = "deprecated"
            THEN RejectionPass(N, Tail(todo), kept, changed)
          ELSE IF f.status = "found"
            THEN RejectionPass(Reject(N, f.path, Last(m.table).version),
                               Tail(todo), kept, TRUE)
          ELSE RejectionPass(N, Tail(todo), Append(kept, m), changed)

RECURSIVE ForfeitPass(_, _, _, _)
ForfeitPass(N, todo, kept, changed) ==
  IF todo = << >> THEN [negotiation |-> N, cache |-> kept, changed |-> changed]
  ELSE LET m == Head(todo)
           f == Find(N, m.table)
       IN IF f.status = "deprecated"
            THEN ForfeitPass(N, Tail(todo), kept, changed)
          ELSE IF f.status = "found"
            THEN ForfeitPass(Forfeit(N, f.path, Last(m.table).version),
                             Tail(todo), kept, TRUE)
          ELSE ForfeitPass(N, Tail(todo), Append(kept, m), changed)

\* A check_cache that replays nothing.
CheckCache_NoReplay(room) == room

RECURSIVE CheckCache(_)
\* NegotiationRoom::check_cache: replays the cached messages until a whole
\* round applies none of them.
CheckCache(room) ==
  LET a == ProposalPass(room.negotiation, room.cached_proposals, << >>, FALSE)
      b == RejectionPass(a.negotiation, room.cached_rejections, << >>, a.changed)
      c == ForfeitPass(b.negotiation, room.cached_forfeits, << >>, b.changed)
      next == [negotiation |-> c.negotiation, cached_proposals |-> a.cache,
               cached_rejections |-> b.cache, cached_forfeits |-> c.cache]
  IN IF c.changed THEN CheckCache(next) ELSE next

\* ------------------------------------------------------------------------
\* Record of the active conflicts (ScheduleNode::ConflictRecord)
\* ------------------------------------------------------------------------

Remove(f, keys) == [x \in DOMAIN f \ keys |-> f[x]]

\* The record after construction.
NewConflictRecord ==
  [version |-> << >>, negotiations |-> << >>, waiting |-> << >>,
   next_negotiation_version |-> 0]

\* ConflictRecord::insert: the record after the conflict set is inserted and
\* the version of the negotiation it opened or extended (None when it did
\* neither).
Insert(ac, conflict) ==
  LET known == conflict \cap DOMAIN ac.version
      add == conflict \ DOMAIN ac.version
  IN IF conflict \cap DOMAIN ac.waiting # {} \/ add = {}
       THEN [record |-> ac, entry |-> None]
     ELSE IF known = {}
       THEN LET n == ac.next_negotiation_version IN
            [record |->
               [ac EXCEPT
                  !.next_negotiation_version = Inc(n),
                  !.version = [p \in add |-> n] @@ ac.version,
                  !.negotiations = (n :> NewRoom(add)) @@ ac.negotiations],
             entry |-> Some(n)]
     ELSE LET n == ac.version[CHOOSE p \in known : TRUE]
              q == CHOOSE p \in add : TRUE
          IN [record |->
                [ac EXCEPT
                   !.version = [p \in add |-> n] @@ ac.version,
                   !.negotiations[n].negotiation = AddParticipant(@, q)],
              entry |-> Some(n)]

\* ConflictRecord::conclude: the negotiation leaves the live set and each of
\* its participants is awaited.
AcConclude(ac, n) ==
  IF n \notin DOMAIN ac.negotiations THEN ac
  ELSE LET P == ac.negotiations[n].negotiation.participants IN
       [ac EXCEPT
          !.waiting = ac.waiting @@
             [p \in P |-> [negotiation_version |-> n,
                           itinerary_update_version |-> None]],
          !.version = Remove(ac.version, P),
          !.negotiations = Remove(ac.negotiations, {n})]

\* ConflictRecord::refuse: the negotiation leaves the live set; nobody is
\* awaited.
AcRefuse(ac, n) ==
  IF n \notin DOMAIN ac.negotiations THEN ac
  ELSE [ac EXCEPT
          !.version = Remove(ac.version,
                             ac.negotiations[n].negotiation.participants),
          !.negotiations = Remove(ac.negotiations, {n})]

\* ConflictRecord::acknowledge: update_version is None or Some(version).
AcAcknowledge(ac, n, p, update_version) ==
  IF p \notin DOMAIN ac.waiting THEN ac
  ELSE IF ac.waiting[p].negotiation_version # n THEN ac
  ELSE IF update_version # None
    THEN [ac EXCEPT !.waiting[p].itinerary_update_version = update_version]
  ELSE [ac EXCEPT !.waiting = Remove(ac.waiting, {p})]

\* ConflictRecord::check: an awaited participant whose itinerary has reached
\* the version it announced is no longer awaited.
AcCheck(ac, p, version) ==
  IF p \notin DOMAIN ac.waiting THEN ac
  ELSE IF ac.waiting[p].itinerary_update_version = None THEN ac
  ELSE IF ModLessEq(ac.waiting[p].itinerary_update_version[1], version)
    THEN [ac EXCEPT !.waiting = Remove(ac.waiting, {p})]
  ELSE ac

\* ------------------------------------------------------------------------
\* State of the schedule node
\* ------------------------------------------------------------------------

VARIABLES
  database,                      \* the schedule database
  registry,                      \* participant registry: key -> participant id
  current_participants_version,  \* bumped by broadcast_participants
  inconsistency_pub,             \* ScheduleInconsistency messages: last per participant
  participants_info,             \* ParticipantsInfo: number published and the last one
  registered_queries,            \* query id -> QueryInfo
  last_query_id,
  now,                           \* std::chrono::steady_clock::now()
  queries_info,                  \* ScheduleQueries: the message published last
  subscription_count,            \* query id -> subscribers of its update topic
  mirror_updates,                \* MirrorUpdate messages of the last update tick
  incremental_mirror,            \* query id -> mirror fed with the incremental patches
  mirror_tick,                   \* position and locals of the update tick
  active_conflicts,              \* the ConflictRecord
  conflict_check,                \* locals of the conflict-check thread
  last_known_participants_version,
  conflict_notices,              \* ConflictNotice messages published
  conflict_conclusions,          \* ConflictConclusion messages published
  applied_versions,              \* participant -> itinerary versions handed to the database
  stub_map,                      \* RectifierFactory::stub_map: participant -> requester alive
  retransmit_calls,              \* Rectifier::retransmit calls of the last notice handled
  itinerary_pub,                 \* itinerary messages the Writer published in its last call
  writer_participants,           \* the Writer's participants: version counter and outbound log
  register_call,                 \* the blocking register_participant call of the Writer
  service_clients,               \* the register and unregister clients of the Transport
  dispatch,                      \* check_inconsistencies between lock() and retransmit
  adapter,                       \* the fleet adapter that holds the Writer
  spinning,                      \* the executor of the schedule node runs its callbacks
  database_mutex,                \* the handler that holds database_mutex, if any
  active_conflicts_mutex,        \* the handler that holds active_conflicts_mutex, if any
  conflict_check_quit,           \* set by the destructor of the node
  destructor,                    \* position of ~ScheduleNode
  lastOp                         \* the message or step handled last

vars ==
  << database, registry, current_participants_version, inconsistency_pub,
     participants_info,
     registered_queries, last_query_id, now, queries_info, subscription_count,
     mirror_updates, incremental_mirror,
     mirror_tick, active_conflicts, conflict_check, last_known_participants_version,
     conflict_notices, conflict_conclusions, applied_versions, stub_map,
     retransmit_calls, itinerary_pub, writer_participants, register_call,
     service_clients, dispatch, adapter, spinning, database_mutex, active_conflicts_mutex, conflict_check_quit, destructor, lastOp >>

\* The other mutex of the node and the variables of its destruction.
nodeVars == << active_conflicts_mutex, conflict_check_quit, destructor >>

dbVars ==
  << database, registry, current_participants_version, inconsistency_pub,
     participants_info, applied_versions >>

\* The ParticipantsInfo topic before anything is published on it.
NoParticipantsInfo == [published |-> 0, participants |-> {}]

queryVars ==
  << registered_queries, last_query_id, now, queries_info, subscription_count,
     mirror_updates, incremental_mirror, mirror_tick >>

\* setup_redundancy broadcasts the queries the node starts with.
FirstQueriesInfo == [queries |-> << >>]

\* The update tick between two runs of update_mirrors.
IdleTick == [pc |-> "idle", id |-> 0, pending |-> {}, served |-> {}]

threadVars == << conflict_check, last_known_participants_version >>

writerVars ==
  << stub_map, retransmit_calls, itinerary_pub, writer_participants,
     register_call, service_clients, dispatch, adapter >>

\* No Adapter::make has been called.
NoAdapter ==
  [pc |-> "none", wait_time |-> 0, now |-> 0, ok |-> TRUE,
   services_ready |-> {}, mirror_ready |-> FALSE, mirror_manager |-> None,
   negotiation |-> None, fleets |-> << >>]

\* Writer::ready: both service clients see their service.
ready(a) ==
  {"register_client", "unregister_client"} \subseteq a.services_ready

\* Transport::Transport: the first client of each service.  A client is
\* named by the number of clients created for its service before it.
NewClients == [register_client |-> 0, unregister_client |-> 0]

\* The Writer after construction: no requester, nothing published, no call
\* of register_participant under way, the context not shut down.
NewWriter ==
  /\ stub_map = << >>
  /\ retransmit_calls = << >>
  /\ itinerary_pub = << >>
  /\ writer_participants = << >>
  /\ register_call = [pc |-> "idle", ok |-> TRUE, future |-> None,
                      result |-> None]
  /\ service_clients = NewClients
  /\ dispatch = None
  /\ adapter = NoAdapter

negotiationVars ==
  << active_conflicts, conflict_notices, conflict_conclusions >>

\* The conflict-check thread before its first iteration.
NewConflictCheck ==
  [pc |-> "wait", mirror |-> EmptyMirror, participants |-> << >>,
   last_checked_version |-> 0, conflicts |-> << >>, new_negotiations |-> {}]

Init ==
  /\ database = EmptyDatabase
  /\ registry = << >>
  /\ current_participants_version = 0
  /\ inconsistency_pub = << >>
  /\ participants_info = NoParticipantsInfo
  /\ registered_queries = << >>
  /\ last_query_id = 0
  /\ now = 0
  /\ queries_info = FirstQueriesInfo
  /\ subscription_count = << >>
  /\ mirror_updates = << >>
  /\ incremental_mirror = << >>
  /\ mirror_tick = IdleTick
  /\ active_conflicts = NewConflictRecord
  /\ conflict_check = NewConflictCheck
  /\ last_known_participants_version = 0
  /\ conflict_notices = << >>
  /\ conflict_conclusions = << >>
  /\ applied_versions = << >>
  /\ NewWriter
  /\ spinning = TRUE
  /\ database_mutex = None
  /\ active_conflicts_mutex = None
  /\ conflict_check_quit = FALSE
  /\ destructor = "none"
  /\ lastOp = [op |-> "init", class |-> "init"]

\* ------------------------------------------------------------------------
\* Participant registration
\* ------------------------------------------------------------------------

\* ParticipantRegistry::add_or_retrieve_participant: the id bound to the key
\* of the description, a new one when the key is unknown.
RegistryId(reg, key) ==
  IF key \in DOMAIN reg THEN reg[key] ELSE Cardinality(DOMAIN reg)

\* ScheduleNode::broadcast_participants: the message lists the participants
\* of the database.
broadcast_participants(info, D) ==
  [published |-> info.published + 1, participants |-> DOMAIN D.entries]

\* The response of a registration that succeeded.
Registration(D, id) ==
  [participant_id |-> id,
   last_itinerary_version |-> DbItineraryVersion(D, id),
   last_route_id |-> D.entries[id].last_route_id,
   error |-> ""]

\* A registration that adds a participant whether or not the key is known.
register_participant_AlwaysNew(key, unresponsive, fails) ==
  /\ spinning
  /\ LET id == Cardinality(DOMAIN database.entries)
         desc == [key |-> key, unresponsive |-> unresponsive]
         D == DbRegister(database, id, desc)
     IN /\ registry' = (key :> id) @@ registry
        /\ database' = D
        /\ applied_versions' = (id :> {0}) @@ applied_versions
        /\ inconsistency_pub' = (id :> None) @@ inconsistency_pub
        /\ current_participants_version' = current_participants_version + 1
        /\ participants_info' = broadcast_participants(participants_info, D)
        /\ lastOp' = [op |-> "register_participant", class |-> "new",
                      key |-> key, response |-> Registration(D, id)]
        /\ UNCHANGED << queryVars, threadVars, negotiationVars, writerVars, spinning, database_mutex, nodeVars >>

\* ScheduleNode::register_participant; fails tells whether
\* add_or_retrieve_participant throws.
register_participant(key, unresponsive, fails) ==
  /\ spinning
  /\ LET id == RegistryId(registry, key)
         desc == [key |-> key, unresponsive |-> unresponsive]
         D == IF key \in DOMAIN registry
                THEN [database EXCEPT !.descriptions[id] = desc]
                ELSE DbRegister(database, id, desc)
     IN IF fails
          THEN /\ lastOp' = [op |-> "register_participant", class |-> "failed",
                             key |-> key, response |-> [error |-> "exception"]]
               /\ UNCHANGED << dbVars, queryVars, threadVars, negotiationVars, writerVars, spinning, database_mutex, nodeVars >>
          ELSE /\ registry' = (key :> id) @@ registry
               /\ database' = D
               /\ applied_versions' =
                    IF key \in DOMAIN registry THEN applied_versions
                    ELSE (id :> {0}) @@ applied_versions
               /\ inconsistency_pub' =
                    IF key \in DOMAIN registry THEN inconsistency_pub
                    ELSE (id :> None) @@ inconsistency_pub
               /\ current_participants_version' = current_participants_version + 1
               /\ participants_info' = broadcast_participants(participants_info, D)
               /\ lastOp' = [op |-> "register_participant",
                             class |-> IF key \in DOMAIN registry THEN "known"
                                       ELSE "new",
                             key |-> key, response |-> Registration(D, id)]
               /\ UNCHANGED << queryVars, threadVars, negotiationVars, writerVars, spinning, database_mutex, nodeVars >>

\* unregister_participant: database->erase(participant_id, version) with the
\* participant's current itinerary version.
UnregisterDatabase(id) ==
  DbEdit(database, id, DbItineraryVersion(database, id), "clear", << >>, {}, 0)

\* An unregistration that broadcasts before it looks the participant up.
unregister_participant_BroadcastFirst(id) ==
  /\ spinning
  /\ current_participants_version' = current_participants_version + 1
  /\ participants_info' = broadcast_participants(participants_info, database)
  /\ lastOp' =
       IF id \in DOMAIN database.entries
         THEN [op |-> "unregister_participant", class |-> "confirmed",
               id |-> id, response |-> [confirmation |-> TRUE, error |-> ""]]
         ELSE [op |-> "unregister_participant", class |-> "unknown",
               id |-> id,
               response |-> [confirmation |-> FALSE,
                             error |-> "no participant has that ID"]]
  /\ UNCHANGED << database, registry, inconsistency_pub, applied_versions,
                  queryVars, threadVars, negotiationVars, writerVars, spinning, database_mutex, nodeVars >>

\* ScheduleNode::unregister_participant
unregister_participant(id) ==
  /\ spinning
  /\ IF id \notin DOMAIN database.entries
       THEN /\ lastOp' = [op |-> "unregister_participant", class |-> "unknown",
                          id |-> id,
                          response |-> [confirmation |-> FALSE,
                                        error |-> "no participant has that ID"]]
            /\ UNCHANGED << dbVars, queryVars, threadVars, negotiationVars, writerVars, spinning, database_mutex, nodeVars >>
       ELSE LET D == UnregisterDatabase(id) IN
            /\ database' = D
            /\ current_participants_version' = current_participants_version + 1
            /\ participants_info' = broadcast_participants(participants_info, D)
            /\ lastOp' = [op |-> "unregister_participant", class |-> "confirmed",
                          id |-> id,
                          response |-> [confirmation |-> TRUE, error |-> ""]]
            /\ UNCHANGED << registry, inconsistency_pub, applied_versions,
                            queryVars, threadVars, negotiationVars, writerVars, spinning, database_mutex, nodeVars >>

\* ------------------------------------------------------------------------
\* Itinerary edits
\* ------------------------------------------------------------------------

\* A publisher that never reports.
publish_inconsistencies_Never(pub, D, id) == pub

\* A publisher that reports the ranges only once they are gone.
publish_inconsistencies_WhenEmpty(pub, D, id) ==
  IF D.entries[id].ranges # {} THEN pub
  ELSE [pub EXCEPT ![id] = Some([ranges |-> D.entries[id].ranges,
                                 last_known_version |-> D.entries[id].latest])]

\* ScheduleNode::publish_inconsistencies: nothing is published while the
\* participant has no inconsistency range.
publish_inconsistencies(pub, D, id) ==
  IF D.entries[id].ranges = {} THEN pub
  ELSE [pub EXCEPT ![id] = Some([ranges |-> D.entries[id].ranges,
                                 last_known_version |-> D.entries[id].latest])]

\* A check against the version after the one the handler passes.
CheckVersion_Ahead(kind, D, p, v) ==
  Inc(IF kind = "set" THEN v ELSE DbItineraryVersion(D, p))

\* The version an edit handler passes to ConflictRecord::check:
\* itinerary_set passes the message's version, the others the database's.
CheckVersion(kind, D, p, v) ==
  IF kind = "set" THEN v ELSE DbItineraryVersion(D, p)

\* A handler that stamps the edit with the version that follows the
\* database's instead of the version of the message.
EditDatabase_NextVersion(kind, p, v, routes, ids, d) ==
  DbEdit(database, p, Inc(DbItineraryVersion(database, p)), kind, routes, ids, d)

\* The database call of an edit handler: participant, payload and
\* itinerary version of the message, handed on as they are.
EditDatabase(kind, p, v, routes, ids, d) ==
  DbEdit(database, p, v, kind, routes, ids, d)

\* The body shared by the five edit handlers: the database operation under
\* the database lock, then publish_inconsistencies, then
\* active_conflicts.check under the active-conflicts lock.  An unknown
\* participant makes the database operation throw before anything changes;
\* no handler and no subscription callback catches, so the exception unwinds
\* the locks and leaves rclcpp's spin.  Whether the caller of spin spins the
\* node again or lets the process end is decided outside the node: both
\* outcomes are steps of the model.
HandleEdit(kind, p, v, routes, ids, d) ==
  IF ~spinning THEN FALSE
  ELSE IF p \notin DOMAIN database.entries
    THEN /\ lastOp' = [op |-> kind, class |-> "UnknownParticipant"]
         /\ spinning' \in BOOLEAN
         /\ UNCHANGED << dbVars, queryVars, threadVars, negotiationVars,
                         writerVars, database_mutex, nodeVars >>
    ELSE LET D == EditDatabase(kind, p, v, routes, ids, d) IN
         /\ database' = D
         /\ inconsistency_pub' = publish_inconsistencies(inconsistency_pub, D, p)
         /\ active_conflicts' =
              AcCheck(active_conflicts, p, CheckVersion(kind, D, p, v))
         /\ applied_versions' = [applied_versions EXCEPT ![p] = @ \cup {v}]
         /\ lastOp' = [op |-> kind, class |-> Classify(database.entries[p], v)]
         /\ UNCHANGED << registry, current_participants_version,
                         participants_info, queryVars,
                         threadVars, conflict_notices, conflict_conclusions, writerVars, spinning, database_mutex, nodeVars >>

\* ScheduleNode::itinerary_set (the itinerary of the message is not empty)
itinerary_set(p, v, routes) == HandleEdit("set", p, v, routes, {}, 0)

\* ScheduleNode::itinerary_extend
itinerary_extend(p, v, routes) == HandleEdit("extend", p, v, routes, {}, 0)

\* ScheduleNode::itinerary_delay
itinerary_delay(p, v, d) == HandleEdit("delay", p, v, << >>, {}, d)

\* ScheduleNode::itinerary_erase
itinerary_erase(p, v, ids) == HandleEdit("erase", p, v, << >>, ids, 0)

\* ScheduleNode::itinerary_clear
itinerary_clear(p, v) == HandleEdit("clear", p, v, << >>, {}, 0)

\* ------------------------------------------------------------------------
\* Query registry and mirror fan-out
\* ------------------------------------------------------------------------

\* The entry register_query(query_id, query) emplaces.
NewQueryInfo(query, time) ==
  [query |-> query, last_sent_version |-> None, remediation_requests |-> {},
   last_registration_time |-> time]

\* An allocation that takes the id after the last one, in use or not.
NextQueryId_Successor(used, id) == Inc(id)

RECURSIVE NextQueryId(_, _)
\* The first id after id that no registered query uses.
NextQueryId(used, id) ==
  IF Inc(id) \in used THEN NextQueryId(used, Inc(id)) ELSE Inc(id)

\* ScheduleNode::broadcast_queries: one ScheduleQueries message that lists
\* the ids of the registered queries with their queries.
broadcast_queries(queries) ==
  [queries |-> [id \in DOMAIN queries |-> queries[id].query]]

register_query_NoDedup(query) ==
  /\ spinning
  /\ LET id == NextQueryId(DOMAIN registered_queries, last_query_id)
         queries == (id :> NewQueryInfo(query, now)) @@ registered_queries
     IN /\ registered_queries' = queries
        /\ subscription_count' = (id :> 0) @@ subscription_count
        /\ incremental_mirror' = (id :> EmptyMirror) @@ incremental_mirror
        /\ last_query_id' = id
        /\ queries_info' = broadcast_queries(queries)
        /\ lastOp' = [op |-> "register_query", class |-> "new",
                      query |-> query, broadcast |-> TRUE,
                      response |-> [query_id |-> id, error |-> ""]]
        /\ UNCHANGED << dbVars, now, mirror_updates, mirror_tick, threadVars,
                        negotiationVars, writerVars, spinning, database_mutex, nodeVars >>

\* ScheduleNode::register_query (the RPC): an equal query keeps its id and
\* has its last registration time refreshed; a new one gets the next unused
\* id, an entry and a publisher without subscribers.  Both broadcast the
\* queries.
register_query(query) ==
  /\ spinning
  /\ LET same == {id \in DOMAIN registered_queries :
                    registered_queries[id].query = query}
         id == NextQueryId(DOMAIN registered_queries, last_query_id)
     IN /\ IF same # {}
             THEN \E existing_query_id \in same :
                    LET queries ==
                          [registered_queries EXCEPT
                             ![existing_query_id].last_registration_time = now]
                    IN /\ registered_queries' = queries
                       /\ queries_info' =
                            broadcast_queries(queries)
                       /\ lastOp' =
                            [op |-> "register_query", class |-> "known",
                             query |-> query, broadcast |-> TRUE,
                             response |-> [query_id |-> existing_query_id,
                                           error |-> ""]]
                       /\ UNCHANGED << last_query_id, subscription_count,
                                       incremental_mirror >>
             ELSE LET queries ==
                        (id :> NewQueryInfo(query, now)) @@ registered_queries
                  IN /\ registered_queries' = queries
                     /\ subscription_count' = (id :> 0) @@ subscription_count
                     /\ incremental_mirror' =
                          (id :> EmptyMirror) @@ incremental_mirror
                     /\ last_query_id' = id
                     /\ queries_info' =
                          broadcast_queries(queries)
                     /\ lastOp' =
                          [op |-> "register_query", class |-> "new",
                           query |-> query, broadcast |-> TRUE,
                           response |-> [query_id |-> id, error |-> ""]]
        /\ UNCHANGED << dbVars, now, mirror_updates, mirror_tick, threadVars,
                        negotiationVars, writerVars, spinning, database_mutex, nodeVars >>

\* The queries cleanup_queries erases: those without subscribers whose last
\* registration is more than the grace period ago.
Deprecated(queries, counts, time) ==
  {id \in DOMAIN queries :
     /\ counts[id] = 0
     /\ GracePeriod < time - queries[id].last_registration_time}

cleanup_queries_NoGrace ==
  /\ spinning
  /\ mirror_tick.pc = "idle"
  /\ LET erased == {id \in DOMAIN registered_queries :
                      subscription_count[id] = 0}
         queries == Remove(registered_queries, erased)
     IN /\ registered_queries' = queries
        /\ subscription_count' = Remove(subscription_count, erased)
        /\ incremental_mirror' = Remove(incremental_mirror, erased)
        /\ queries_info' = IF erased = {} THEN queries_info
                           ELSE broadcast_queries(queries)
        /\ lastOp' = [op |-> "cleanup_queries",
                      class |-> IF erased = {} THEN "kept" ELSE "erased",
                      broadcast |-> erased # {}]
  /\ UNCHANGED << dbVars, last_query_id, now, mirror_updates, mirror_tick,
                  threadVars, negotiationVars, writerVars, spinning, database_mutex, nodeVars >>

\* ScheduleNode::cleanup_queries: the deprecated queries are erased, and the
\* queries are broadcast when any was.  The cleanup runs on a timer of the
\* node, as the update tick does: the executor runs one of the two
\* callbacks at a time.
cleanup_queries ==
  /\ spinning
  /\ mirror_tick.pc = "idle"
  /\ LET erased == Deprecated(registered_queries, subscription_count, now)
         queries == Remove(registered_queries, erased)
     IN /\ registered_queries' = queries
        /\ subscription_count' = Remove(subscription_count, erased)
        /\ incremental_mirror' = Remove(incremental_mirror, erased)
        /\ queries_info' = IF erased = {} THEN queries_info
                           ELSE broadcast_queries(queries)
        /\ lastOp' = [op |-> "cleanup_queries",
                      class |-> IF erased = {} THEN "kept" ELSE "erased",
                      broadcast |-> erased # {}]
  /\ UNCHANGED << dbVars, last_query_id, now, mirror_updates, mirror_tick,
                  threadVars, negotiationVars, writerVars, spinning, database_mutex, nodeVars >>

\* A mirror subscribes to the update topic of a query, or a subscription
\* ends: the publisher's get_subscription_count() follows.
Subscription(id, change) ==
  /\ id \in DOMAIN subscription_count
  /\ subscription_count[id] + change \in 0 .. 1
  /\ subscription_count' =
       [subscription_count EXCEPT ![id] = @ + change]
  /\ lastOp' = [op |-> "subscription", class |-> "changed"]
  /\ UNCHANGED << dbVars, registered_queries, last_query_id, now,
                  queries_info, mirror_updates, incremental_mirror,
                  mirror_tick, threadVars, negotiationVars, writerVars,
                  spinning, database_mutex, nodeVars >>

\* The steady clock advances.
Elapse ==
  /\ now < MaxTime
  /\ now' = now + 1
  /\ lastOp' = [op |-> "elapse", class |-> "tick"]
  /\ UNCHANGED << dbVars, registered_queries, last_query_id, queries_info,
                  subscription_count, mirror_updates, incremental_mirror,
                  mirror_tick, threadVars, negotiationVars, writerVars,
                  spinning, database_mutex, nodeVars >>

\* Remediation requests decided by the plain order of the version numbers.
Remediation_Unsigned(info, version, full_update) ==
  IF full_update THEN info.remediation_requests \cup {None}
  ELSE IF info.last_sent_version # None /\ version < info.last_sent_version[1]
    THEN info.remediation_requests \cup {Some(version)}
  ELSE info.remediation_requests

\* The remediation requests of a query after request_changes: a full update
\* inserts nullopt, any other request its version when that is older than
\* the last version sent.
Remediation(info, version, full_update) ==
  IF full_update THEN info.remediation_requests \cup {None}
  ELSE IF info.last_sent_version # None
            /\ ModLess(version, info.last_sent_version[1])
    THEN info.remediation_requests \cup {Some(version)}
  ELSE info.remediation_requests

\* A handler that accepts every request.
request_changes_AcceptAll(query_id, version, full_update) ==
  /\ spinning
  /\ registered_queries' =
       IF query_id \notin DOMAIN registered_queries THEN registered_queries
       ELSE [registered_queries EXCEPT
               ![query_id].remediation_requests =
                  Remediation(registered_queries[query_id], version,
                              full_update)]
  /\ lastOp' = [op |-> "request_changes", class |-> "REQUEST_ACCEPTED",
                query_id |-> query_id, version |-> version,
                full_update |-> full_update]
  /\ UNCHANGED << dbVars, last_query_id, now, queries_info, subscription_count, mirror_updates, incremental_mirror,
                  mirror_tick, threadVars, negotiationVars, writerVars, spinning, database_mutex, nodeVars >>

\* ScheduleNode::request_changes
request_changes(query_id, version, full_update) ==
  /\ spinning
  /\ IF query_id \notin DOMAIN registered_queries
       THEN /\ lastOp' = [op |-> "request_changes", class |-> "UNKNOWN_QUERY_ID",
                          query_id |-> query_id]
            /\ UNCHANGED registered_queries
       ELSE /\ registered_queries' =
                 [registered_queries EXCEPT
                    ![query_id].remediation_requests =
                       Remediation(registered_queries[query_id], version,
                                   full_update)]
            /\ lastOp' = [op |-> "request_changes", class |-> "REQUEST_ACCEPTED",
                          query_id |-> query_id, version |-> version,
                          full_update |-> full_update]
  /\ UNCHANGED << dbVars, last_query_id, now, queries_info, subscription_count, mirror_updates, incremental_mirror,
                  mirror_tick, threadVars, negotiationVars, writerVars, spinning, database_mutex, nodeVars >>

\* An update_query that suppresses every empty patch, remedial or not.
update_query_SuppressEmpty(query_id, query, last_sent_version, is_remedial) ==
  LET patch == Changes(database, query, last_sent_version) IN
  IF patch.entries = << >> /\ ~patch.cull THEN << >>
  ELSE << [query_id |-> query_id, database_version |-> database.version,
           patch |-> patch, is_remedial_update |-> is_remedial] >>

\* An update_query that publishes every patch.
update_query_PublishEmpty(query_id, query, last_sent_version, is_remedial) ==
  LET patch == Changes(database, query, last_sent_version) IN
  << [query_id |-> query_id, database_version |-> database.version,
      patch |-> patch, is_remedial_update |-> is_remedial] >>

\* An update_query that answers a request for a full update with the
\* changes since the current database version.
update_query_NoFullPatch(query_id, query, last_sent_version, is_remedial) ==
  LET since == IF is_remedial /\ last_sent_version = None
                 THEN Some(database.version) ELSE last_sent_version
      patch == Changes(database, query, since) IN
  IF ~is_remedial /\ patch.entries = << >> /\ ~patch.cull THEN << >>
  ELSE << [query_id |-> query_id, database_version |-> database.version,
           patch |-> patch, is_remedial_update |-> is_remedial] >>

\* ScheduleNode::update_query: the MirrorUpdate messages (none or one) it
\* publishes for the changes since last_sent_version.
update_query(query_id, query, last_sent_version, is_remedial) ==
  LET patch == Changes(database, query, last_sent_version) IN
  IF ~is_remedial /\ patch.entries = << >> /\ ~patch.cull THEN << >>
  ELSE << [query_id |-> query_id, database_version |-> database.version,
           patch |-> patch, is_remedial_update |-> is_remedial] >>

RECURSIVE Remedials(_, _, _)
\* The remedial updates of one query, one per pending request.
Remedials(query_id, query, requests) ==
  IF requests = {} THEN << >>
  ELSE LET r == CHOOSE x \in requests : TRUE IN
       update_query(query_id, query, r, TRUE)
         \o Remedials(query_id, query, requests \ {r})

\* The messages update_mirrors publishes for one query: the remedial updates,
\* then the incremental one unless the query is up to date.
QueryUpdates(query_id) ==
  LET info == registered_queries[query_id] IN
  Remedials(query_id, info.query, info.remediation_requests)
    \o (IF info.last_sent_version = Some(database.version) THEN << >>
        ELSE update_query(query_id, info.query, info.last_sent_version, FALSE))

RECURSIVE ApplyIncremental(_, _)
\* A subscriber's mirror after the incremental updates among msgs.
ApplyIncremental(m, msgs) ==
  IF msgs = << >> THEN m
  ELSE ApplyIncremental(
         IF Head(msgs).is_remedial_update THEN m
         ELSE MirrorUpdate(m, Head(msgs).patch),
         Tail(msgs))

\* ScheduleNode::update_mirrors: the update tick.
update_mirrors ==
  /\ spinning
  /\ mirror_updates' = [id \in DOMAIN registered_queries |-> QueryUpdates(id)]
  /\ registered_queries' =
       [id \in DOMAIN registered_queries |->
          [registered_queries[id] EXCEPT
             !.remediation_requests = {},
             !.last_sent_version = Some(database.version)]]
  /\ incremental_mirror' =
       [id \in DOMAIN registered_queries |->
          ApplyIncremental(incremental_mirror[id], QueryUpdates(id))]
  /\ lastOp' = [op |-> "update_mirrors", class |-> "tick"]
  /\ UNCHANGED << dbVars, last_query_id, now, queries_info, subscription_count, mirror_tick, threadVars,
                  negotiationVars, writerVars, spinning, database_mutex, nodeVars >>

\* update_mirrors when other callbacks run while it does: the queries the
\* loop has still to visit.
TickPending ==
  IF mirror_tick.pending = {} THEN DOMAIN registered_queries
  ELSE mirror_tick.pending \cap DOMAIN registered_queries

\* update_mirrors, the loop over remediation_requests of the next query: one
\* remedial update per request the loop finds in the set.
TickRemedial ==
  /\ spinning
  /\ mirror_tick.pc = "idle"
  /\ TickPending # {}
  /\ LET id == CHOOSE x \in TickPending : \A y \in TickPending : x <= y
         info == registered_queries[id]
     IN /\ mirror_updates' =
             (id :> Remedials(id, info.query, info.remediation_requests))
               @@ mirror_updates
        /\ mirror_tick' = [pc |-> "clear", id |-> id,
                           pending |-> TickPending \ {id},
                           served |-> info.remediation_requests]
  /\ lastOp' = [op |-> "update_mirrors", class |-> "remedial"]
  /\ UNCHANGED << dbVars, registered_queries, last_query_id, now, queries_info, subscription_count,
                  incremental_mirror, threadVars, negotiationVars, writerVars, spinning, database_mutex, nodeVars >>

\* update_mirrors, the loop body after the remediation loop:
\* remediation_requests.clear(), then, unless the query is up to date, the
\* incremental update that update_query computes and publishes.
TickClear ==
  /\ spinning
  /\ mirror_tick.pc = "clear"
  /\ LET id == mirror_tick.id
         info == registered_queries[id]
         current == info.last_sent_version = Some(database.version)
         msgs == IF current THEN << >>
                 ELSE update_query(id, info.query, info.last_sent_version,
                                   FALSE)
     IN /\ registered_queries' =
             [registered_queries EXCEPT ![id].remediation_requests = {}]
        /\ mirror_updates' = [mirror_updates EXCEPT ![id] = @ \o msgs]
        /\ incremental_mirror' =
             [incremental_mirror EXCEPT ![id] = ApplyIncremental(@, msgs)]
        /\ mirror_tick' =
             [mirror_tick EXCEPT !.pc = IF current THEN "idle" ELSE "advance",
                                 !.served = {}]
  /\ lastOp' = [op |-> "update_mirrors", class |-> "cleared"]
  /\ UNCHANGED << dbVars, last_query_id, now, queries_info, subscription_count, threadVars, negotiationVars, writerVars, spinning, database_mutex, nodeVars >>

\* update_mirrors, the last statement of the loop body:
\* last_sent_version = database->latest_version(), read again after
\* update_query has returned and without database_mutex.
TickAdvance ==
  /\ spinning
  /\ mirror_tick.pc = "advance"
  /\ registered_queries' =
       [registered_queries EXCEPT
          ![mirror_tick.id].last_sent_version = Some(database.version)]
  /\ mirror_tick' = [mirror_tick EXCEPT !.pc = "idle"]
  /\ lastOp' = [op |-> "update_mirrors", class |-> "advanced"]
  /\ UNCHANGED << dbVars, last_query_id, now, queries_info, subscription_count,
                  mirror_updates, incremental_mirror, threadVars,
                  negotiationVars, writerVars, spinning, database_mutex, nodeVars >>

\* ------------------------------------------------------------------------
\* Conflict detection (conflict_check_thread)
\* ------------------------------------------------------------------------

\* DetectConflict::between, with a trajectory abstracted to the time slot it
\* occupies: two routes on one map conflict when they occupy the same slot.
Between(a, b) == a = b

RECURSIVE SetToSeq(_)
\* The elements of a finite set in the order a view iterates over them.
SetToSeq(S) ==
  IF S = {} THEN << >>
  ELSE LET x == CHOOSE y \in S : TRUE IN << x >> \o SetToSeq(S \ {x})

RECURSIVE ConflictsOfRoutes(_, _, _, _)
\* get_conflicts, innermost loop: one conflict set for each route of the
\* participant's itinerary on the map of the view change vc that the oracle
\* reports as conflicting with it.
ConflictsOfRoutes(participant, itinerary, delay, vc) ==
  IF itinerary = << >> THEN << >>
  ELSE (IF Head(itinerary).map = vc.map
             /\ Between(vc.traj, Head(itinerary).traj + delay)
          THEN << {participant, vc.participant} >> ELSE << >>)
       \o ConflictsOfRoutes(participant, Tail(itinerary), delay, vc)

RECURSIVE ConflictsOfChanges_AnyPair(_, _, _, _)
\* A loop over the view changes that also pairs two unresponsive
\* participants.
ConflictsOfChanges_AnyPair(participant, description, view, view_changes) ==
  IF view_changes = << >> THEN << >>
  ELSE LET vc == Head(view_changes) IN
       (IF vc.participant = participant THEN << >>
        ELSE ConflictsOfRoutes(participant, view.itin, view.delay, vc))
       \o ConflictsOfChanges_AnyPair(participant, description, view,
                                     Tail(view_changes))

RECURSIVE ConflictsOfChanges(_, _, _, _)
\* get_conflicts, loop over the view changes: a change of the participant
\* itself is skipped, and so is one of an unresponsive participant when the
\* participant is unresponsive too.
ConflictsOfChanges(participant, description, view, view_changes) ==
  IF view_changes = << >> THEN << >>
  ELSE LET vc == Head(view_changes) IN
       (IF vc.participant = participant THEN << >>
        ELSE IF description.unresponsive /\ vc.unresponsive THEN << >>
        ELSE ConflictsOfRoutes(participant, view.itin, view.delay, vc))
       \o ConflictsOfChanges(participant, description, view, Tail(view_changes))

RECURSIVE ConflictsOfParticipants(_, _, _)
\* get_conflicts, outer loop over the participants the viewer knows, in
\* increasing order of their ids.
ConflictsOfParticipants(ids, view_changes, viewer) ==
  IF ids = {} THEN << >>
  ELSE LET p == CHOOSE x \in ids : \A y \in ids : x <= y IN
       ConflictsOfChanges(p, viewer.participants[p], viewer.mirror[p],
                          view_changes)
       \o ConflictsOfParticipants(ids \ {p}, view_changes, viewer)

\* get_conflicts(view_changes, viewer): the vector of conflict sets.
get_conflicts(view_changes, viewer) ==
  ConflictsOfParticipants(DOMAIN viewer.participants, view_changes, viewer)

\* A wakeup test that does not look at the quit flag.
CasualWakeup_Unquit ==
  /\ database.version = conflict_check.last_checked_version
  /\ last_known_participants_version = current_participants_version

\* conflict_check_thread, the test after wait_for: nothing changed since the
\* last pass, or the node is being destroyed.
CasualWakeup ==
  \/ /\ database.version = conflict_check.last_checked_version
     /\ last_known_participants_version = current_participants_version
  \/ conflict_check_quit

\* A detector that advances last_checked_version past the version of the
\* patch.
ConflictCheckLocked_Ahead ==
  /\ spinning
  /\ conflict_check.pc = "wait"
  /\ ~CasualWakeup
  /\ UNCHANGED << dbVars, queryVars, negotiationVars, writerVars, spinning, database_mutex, nodeVars >>
  /\ last_known_participants_version' = current_participants_version
  /\ \E participants \in
          {IF last_known_participants_version # current_participants_version
             THEN database.descriptions ELSE conflict_check.participants},
        next_patch \in
          {Changes(database, Maps, Some(conflict_check.last_checked_version))},
        view_changes \in
          {SetToSeq(ViewChanges(database, conflict_check.last_checked_version))} :
       \E mirror \in {MirrorUpdate(conflict_check.mirror, next_patch)} :
         \E conflicts \in
              {get_conflicts(view_changes,
                             [mirror |-> mirror, participants |-> participants])} :
           /\ conflict_check' =
                [pc |-> IF conflicts = << >> THEN "wait" ELSE "insert",
                 mirror |-> mirror, participants |-> participants,
                 last_checked_version |-> Inc(next_patch.latest),
                 conflicts |-> conflicts, new_negotiations |-> {}]
           /\ lastOp' =
                [op |-> "conflict_check",
                 class |-> IF conflicts = << >> THEN "none" ELSE "found"]

\* conflict_check_thread, the section under database_mutex followed by
\* get_conflicts on the thread's own copies.  The step is taken when the
\* database or the participants changed since the last pass; otherwise the
\* thread wakes up and waits again.
ConflictCheckLocked ==
  /\ spinning
  /\ conflict_check.pc = "wait"
  /\ ~CasualWakeup
  /\ UNCHANGED << dbVars, queryVars, negotiationVars, writerVars, spinning, database_mutex, nodeVars >>
  /\ last_known_participants_version' = current_participants_version
  /\ \E participants \in
          {IF last_known_participants_version # current_participants_version
             THEN database.descriptions ELSE conflict_check.participants},
        next_patch \in
          {Changes(database, Maps, Some(conflict_check.last_checked_version))},
        view_changes \in
          {SetToSeq(ViewChanges(database, conflict_check.last_checked_version))} :
       \E mirror \in {MirrorUpdate(conflict_check.mirror, next_patch)} :
         \E conflicts \in
              {get_conflicts(view_changes,
                             [mirror |-> mirror, participants |-> participants])} :
           /\ conflict_check' =
                [pc |-> IF conflicts = << >> THEN "wait" ELSE "insert",
                 mirror |-> mirror, participants |-> participants,
                 last_checked_version |-> next_patch.latest,
                 conflicts |-> conflicts, new_negotiations |-> {}]
           /\ lastOp' =
                [op |-> "conflict_check",
                 class |-> IF conflicts = << >> THEN "none" ELSE "found"]

\* What ConflictRecord::insert did with a conflict set.
InsertClass(ac, conflict) ==
  IF Insert(ac, conflict).entry = None THEN "dropped"
  ELSE IF conflict \cap DOMAIN ac.version = {} THEN "opened"
  ELSE "joined"

\* conflict_check_thread, one turn of the loop over the conflicts:
\* active_conflicts.insert under active_conflicts_mutex.
ConflictInsert ==
  /\ spinning
  /\ conflict_check.pc = "insert"
  /\ UNCHANGED << dbVars, queryVars, last_known_participants_version,
                  conflict_notices, conflict_conclusions, writerVars, spinning, database_mutex, nodeVars >>
  /\ LET conflict == Head(conflict_check.conflicts)
         rest == Tail(conflict_check.conflicts)
         new_negotiation == Insert(active_conflicts, conflict)
         new_negotiations ==
           conflict_check.new_negotiations \cup
             (IF new_negotiation.entry = None THEN {}
              ELSE {new_negotiation.entry[1]})
     IN /\ active_conflicts' = new_negotiation.record
        /\ conflict_check' =
             [conflict_check EXCEPT
                !.conflicts = rest,
                !.new_negotiations = new_negotiations,
                !.pc = IF rest # << >> THEN "insert"
                       ELSE IF new_negotiations # {} THEN "notify"
                       ELSE "wait"]
        /\ lastOp' = [op |-> "insert",
                      class |-> InsertClass(active_conflicts, conflict),
                      conflict |-> conflict]

\* The participants the notice loop reads through the negotiation pointer it
\* kept: those of the negotiation while it is alive; any set when a handler
\* has erased the negotiation in the meantime (the pointer dangles).
NoticeParticipants(n) ==
  IF n \in DOMAIN active_conflicts.negotiations
    THEN {active_conflicts.negotiations[n].negotiation.participants}
    ELSE SUBSET ParticipantIds

\* A notice loop that publishes the notice of a negotiation twice.
ConflictNotify_Twice ==
  /\ spinning
  /\ conflict_check.pc = "notify"
  /\ UNCHANGED << dbVars, queryVars, last_known_participants_version,
                  active_conflicts, conflict_conclusions, writerVars, spinning, database_mutex, nodeVars >>
  /\ \E n \in conflict_check.new_negotiations :
       \E participants \in NoticeParticipants(n) :
         /\ conflict_notices' =
              Append(Append(conflict_notices,
                            [conflict_version |-> n, participants |-> participants]),
                     [conflict_version |-> n, participants |-> participants])
         /\ conflict_check' =
              [conflict_check EXCEPT
                 !.new_negotiations = @ \ {n},
                 !.pc = IF conflict_check.new_negotiations = {n}
                          THEN "wait" ELSE "notify"]
         /\ lastOp' = [op |-> "notice", class |-> "published"]

\* conflict_check_thread, one turn of the loop over new_negotiations: a
\* ConflictNotice is published, without any lock held.
ConflictNotify ==
  /\ spinning
  /\ conflict_check.pc = "notify"
  /\ UNCHANGED << dbVars, queryVars, last_known_participants_version,
                  active_conflicts, conflict_conclusions, writerVars, spinning, database_mutex, nodeVars >>
  /\ \E n \in conflict_check.new_negotiations :
       \E participants \in NoticeParticipants(n) :
         /\ conflict_notices' =
              Append(conflict_notices,
                     [conflict_version |-> n, participants |-> participants])
         /\ conflict_check' =
              [conflict_check EXCEPT
                 !.new_negotiations = @ \ {n},
                 !.pc = IF conflict_check.new_negotiations = {n}
                          THEN "wait" ELSE "notify"]
         /\ lastOp' = [op |-> "notice", class |-> "published"]

\* ------------------------------------------------------------------------
\* Negotiation messages
\* ------------------------------------------------------------------------

\* active_conflicts.negotiation(conflict_version): the room, if it is live.
Live(n) == n \in DOMAIN active_conflicts.negotiations

\* The ConflictConclusion of a negotiation that found no solution.
Unresolved(n) == [conflict_version |-> n, resolved |-> FALSE, table |-> << >>]

\* The ConflictConclusion of a negotiation that chose the branch at path s.
Resolved(n, N, s) ==
  [conflict_version |-> n, resolved |-> TRUE, table |-> TableSequence(N, s)]

\* What is remembered of a message whose content no property refers to: the
\* negotiation it names.
Named(msg) == [conflict_version |-> msg.conflict_version]

\* A step that publishes a conclusion for a message it should discard.
Dismiss_Concluding(op, class, msg) ==
  /\ lastOp' = [op |-> op, class |-> class, msg |-> Named(msg)]
  /\ conflict_conclusions' =
       Append(conflict_conclusions, Unresolved(msg.conflict_version))
  /\ UNCHANGED << dbVars, queryVars, threadVars, active_conflicts,
                  conflict_notices, writerVars, spinning, database_mutex, nodeVars >>

\* A step that handled the negotiation message msg and changed nothing.
Dismiss(op, class, msg) ==
  /\ lastOp' = [op |-> op, class |-> class, msg |-> Named(msg)]
  /\ UNCHANGED << dbVars, queryVars, threadVars, negotiationVars, writerVars, spinning, database_mutex, nodeVars >>

\* ScheduleNode::receive_conclusion_ack, one entry of msg.acknowledgments.
Acknowledge(ac, n, ack) ==
  AcAcknowledge(ac, n, ack.participant,
                IF ack.updating THEN Some(ack.itinerary_version) ELSE None)

RECURSIVE Acknowledgments(_, _, _)
\* ScheduleNode::receive_conclusion_ack, the loop over msg.acknowledgments.
Acknowledgments(ac, n, acks) ==
  IF acks = << >> THEN ac
  ELSE Acknowledgments(Acknowledge(ac, n, Head(acks)), n, Tail(acks))

\* ScheduleNode::receive_conclusion_ack
receive_conclusion_ack(msg) ==
  /\ spinning
  /\ active_conflicts' =
       Acknowledgments(active_conflicts, msg.conflict_version,
                       msg.acknowledgments)
  /\ lastOp' = [op |-> "ack", class |-> "handled", msg |-> msg]
  /\ UNCHANGED << dbVars, queryVars, threadVars, conflict_notices,
                  conflict_conclusions, writerVars, spinning, database_mutex, nodeVars >>

\* A refusal handler that answers also when the negotiation is not live.
receive_refusal_Unchecked(msg) ==
  /\ spinning
  /\ active_conflicts' = AcRefuse(active_conflicts, msg.conflict_version)
  /\ conflict_conclusions' =
       Append(conflict_conclusions, Unresolved(msg.conflict_version))
  /\ lastOp' = [op |-> "refusal", class |-> "refused", msg |-> Named(msg)]
  /\ UNCHANGED << dbVars, queryVars, threadVars, conflict_notices, writerVars, spinning, database_mutex, nodeVars >>

\* ScheduleNode::receive_refusal
receive_refusal(msg) ==
  /\ spinning
  /\ IF ~Live(msg.conflict_version)
       THEN Dismiss("refusal", "no_negotiation", msg)
       ELSE /\ active_conflicts' = AcRefuse(active_conflicts, msg.conflict_version)
            /\ conflict_conclusions' =
                 Append(conflict_conclusions, Unresolved(msg.conflict_version))
            /\ lastOp' = [op |-> "refusal", class |-> "refused", msg |-> Named(msg)]
            /\ UNCHANGED << dbVars, queryVars, threadVars, conflict_notices, writerVars, spinning, database_mutex, nodeVars >>

\* The room of negotiation n before a message is handled.
Room(n) == active_conflicts.negotiations[n]

\* The record with the room of negotiation n replaced.
WithRoom(ac, n, room) == [ac EXCEPT !.negotiations[n] = room]

\* The number of messages a room has cached.
Cached(room) ==
  Len(room.cached_proposals) + Len(room.cached_rejections)
    + Len(room.cached_forfeits)

\* receive_proposal after table->submit: the room once the proposal is
\* submitted to the table at path s and the cache is replayed.
Submitted(room, s, msg) ==
  CheckCache([room EXCEPT
     !.negotiation = Submit(@, s, msg.finish, msg.proposal_version)])

\* A choice of the branch that finishes last.
Choose_SlowestFinish(N) ==
  CHOOSE s \in ReadyLeaves(N) :
    \A t \in ReadyLeaves(N) \ {s} :
      \/ BranchFinish(N, s) > BranchFinish(N, t)
      \/ BranchFinish(N, s) = BranchFinish(N, t) /\ LexLess(s, t)

\* receive_proposal: negotiation.evaluate(QuickestFinishEvaluator()).
Choose(N) == Evaluate(N)

\* A proposal handler that concludes a ready negotiation as unresolved.
receive_proposal_Unresolved(msg) ==
  /\ spinning
  /\ LET n == msg.conflict_version IN
     IF ~Live(n) THEN Dismiss("proposal", "no_negotiation", msg)
     ELSE
       LET search == FindFor(Room(n).negotiation, msg.for_participant,
                             msg.to_accommodate)
           room == Submitted(Room(n), search.path, msg)
           negotiation == room.negotiation
       IN
       IF search.status = "deprecated" THEN Dismiss("proposal", "deprecated", msg)
       ELSE IF search.status = "absent"
         THEN /\ Cached(Room(n)) < MaxCache
              /\ active_conflicts' =
                   [active_conflicts EXCEPT
                      !.negotiations[n].cached_proposals = Append(@, msg)]
              /\ lastOp' = [op |-> "proposal", class |-> "cached", msg |-> Named(msg)]
              /\ UNCHANGED << dbVars, queryVars, threadVars, conflict_notices,
                              conflict_conclusions, writerVars, spinning, database_mutex, nodeVars >>
       ELSE IF Ready(negotiation)
         THEN /\ active_conflicts' =
                   AcConclude(WithRoom(active_conflicts, n, room), n)
              /\ conflict_conclusions' =
                   Append(conflict_conclusions, Unresolved(n))
              /\ lastOp' = [op |-> "proposal", class |-> "resolved", msg |-> msg]
              /\ UNCHANGED << dbVars, queryVars, threadVars, conflict_notices, writerVars, spinning, database_mutex, nodeVars >>
       ELSE IF Complete(negotiation)
         THEN /\ active_conflicts' =
                   AcConclude(WithRoom(active_conflicts, n, room), n)
              /\ conflict_conclusions' =
                   Append(conflict_conclusions, Unresolved(n))
              /\ lastOp' = [op |-> "proposal", class |-> "forfeited", msg |-> msg]
              /\ UNCHANGED << dbVars, queryVars, threadVars, conflict_notices, writerVars, spinning, database_mutex, nodeVars >>
       ELSE /\ active_conflicts' = WithRoom(active_conflicts, n, room)
            /\ lastOp' = [op |-> "proposal", class |-> "submitted", msg |-> msg]
            /\ UNCHANGED << dbVars, queryVars, threadVars, conflict_notices,
                            conflict_conclusions, writerVars, spinning, database_mutex, nodeVars >>

\* ScheduleNode::receive_proposal
receive_proposal(msg) ==
  /\ spinning
  /\ LET n == msg.conflict_version IN
     IF ~Live(n) THEN Dismiss("proposal", "no_negotiation", msg)
     ELSE
       LET search == FindFor(Room(n).negotiation, msg.for_participant,
                             msg.to_accommodate)
           room == Submitted(Room(n), search.path, msg)
           negotiation == room.negotiation
       IN
       IF search.status = "deprecated" THEN Dismiss("proposal", "deprecated", msg)
       ELSE IF search.status = "absent"
         THEN /\ Cached(Room(n)) < MaxCache
              /\ active_conflicts' =
                   [active_conflicts EXCEPT
                      !.negotiations[n].cached_proposals = Append(@, msg)]
              /\ lastOp' = [op |-> "proposal", class |-> "cached", msg |-> Named(msg)]
              /\ UNCHANGED << dbVars, queryVars, threadVars, conflict_notices,
                              conflict_conclusions, writerVars, spinning, database_mutex, nodeVars >>
       ELSE IF Ready(negotiation)
         THEN /\ active_conflicts' =
                   AcConclude(WithRoom(active_conflicts, n, room), n)
              /\ conflict_conclusions' =
                   Append(conflict_conclusions,
                          Resolved(n, negotiation, Choose(negotiation)))
              /\ lastOp' = [op |-> "proposal", class |-> "resolved", msg |-> msg]
              /\ UNCHANGED << dbVars, queryVars, threadVars, conflict_notices, writerVars, spinning, database_mutex, nodeVars >>
       ELSE IF Complete(negotiation)
         THEN /\ active_conflicts' =
                   AcConclude(WithRoom(active_conflicts, n, room), n)
              /\ conflict_conclusions' =
                   Append(conflict_conclusions, Unresolved(n))
              /\ lastOp' = [op |-> "proposal", class |-> "forfeited", msg |-> msg]
              /\ UNCHANGED << dbVars, queryVars, threadVars, conflict_notices, writerVars, spinning, database_mutex, nodeVars >>
       ELSE /\ active_conflicts' = WithRoom(active_conflicts, n, room)
            /\ lastOp' = [op |-> "proposal", class |-> "submitted", msg |-> msg]
            /\ UNCHANGED << dbVars, queryVars, threadVars, conflict_notices,
                            conflict_conclusions, writerVars, spinning, database_mutex, nodeVars >>

\* ScheduleNode::receive_rejection: the table is rejected and the cache
\* replayed; the handler never concludes the negotiation.
receive_rejection(msg) ==
  /\ spinning
  /\ LET n == msg.conflict_version IN
     IF ~Live(n) THEN Dismiss("rejection", "no_negotiation", msg)
     ELSE
       LET search == Find(Room(n).negotiation, msg.table)
           room == CheckCache([Room(n) EXCEPT
                     !.negotiation = Reject(@, search.path, Last(msg.table).version)])
       IN
       IF search.status = "deprecated" THEN Dismiss("rejection", "deprecated", msg)
       ELSE IF search.status = "absent"
         THEN /\ Cached(Room(n)) < MaxCache
              /\ active_conflicts' =
                   [active_conflicts EXCEPT
                      !.negotiations[n].cached_rejections = Append(@, msg)]
              /\ lastOp' = [op |-> "rejection", class |-> "cached", msg |-> Named(msg)]
              /\ UNCHANGED << dbVars, queryVars, threadVars, conflict_notices,
                              conflict_conclusions, writerVars, spinning, database_mutex, nodeVars >>
       ELSE /\ active_conflicts' = WithRoom(active_conflicts, n, room)
            /\ lastOp' = [op |-> "rejection", class |-> "rejected", msg |-> msg]
            /\ UNCHANGED << dbVars, queryVars, threadVars, conflict_notices,
                            conflict_conclusions, writerVars, spinning, database_mutex, nodeVars >>

\* A forfeit handler that, like the rejection handler, never concludes.
receive_forfeit_NoConclude(msg) ==
  /\ spinning
  /\ Live(msg.conflict_version)
  /\ LET n == msg.conflict_version
         search == Find(Room(n).negotiation, msg.table)
     IN
     /\ search.status = "found"
     /\ active_conflicts' =
          WithRoom(active_conflicts, n,
                   CheckCache([Room(n) EXCEPT
                     !.negotiation =
                        Forfeit(@, search.path, Last(msg.table).version)]))
     /\ lastOp' = [op |-> "forfeit", class |-> "applied", msg |-> Named(msg)]
     /\ UNCHANGED << dbVars, queryVars, threadVars, conflict_notices,
                     conflict_conclusions, writerVars, spinning, database_mutex, nodeVars >>

\* A forfeit handler that concludes also a negotiation that is not live.
receive_forfeit_Unchecked(msg) ==
  /\ spinning
  /\ active_conflicts' = AcConclude(active_conflicts, msg.conflict_version)
  /\ conflict_conclusions' =
       Append(conflict_conclusions, Unresolved(msg.conflict_version))
  /\ lastOp' = [op |-> "forfeit", class |-> "forfeited", msg |-> Named(msg)]
  /\ UNCHANGED << dbVars, queryVars, threadVars, conflict_notices, writerVars, spinning, database_mutex, nodeVars >>

\* ScheduleNode::receive_forfeit
receive_forfeit(msg) ==
  /\ spinning
  /\ LET n == msg.conflict_version IN
     IF ~Live(n) THEN Dismiss("forfeit", "no_negotiation", msg)
     ELSE
       LET search == Find(Room(n).negotiation, msg.table)
           room == CheckCache([Room(n) EXCEPT
                     !.negotiation = Forfeit(@, search.path, Last(msg.table).version)])
       IN
       IF search.status = "deprecated" THEN Dismiss("forfeit", "deprecated", msg)
       ELSE IF search.status = "absent"
         THEN /\ Cached(Room(n)) < MaxCache
              /\ active_conflicts' =
                   [active_conflicts EXCEPT
                      !.negotiations[n].cached_forfeits = Append(@, msg)]
              /\ lastOp' = [op |-> "forfeit", class |-> "cached", msg |-> Named(msg)]
              /\ UNCHANGED << dbVars, queryVars, threadVars, conflict_notices,
                              conflict_conclusions, writerVars, spinning, database_mutex, nodeVars >>
       ELSE IF Complete(room.negotiation)
         THEN /\ active_conflicts' =
                   AcConclude(WithRoom(active_conflicts, n, room), n)
              /\ conflict_conclusions' =
                   Append(conflict_conclusions, Unresolved(n))
              /\ lastOp' = [op |-> "forfeit", class |-> "forfeited", msg |-> msg]
              /\ UNCHANGED << dbVars, queryVars, threadVars, conflict_notices, writerVars, spinning, database_mutex, nodeVars >>
       ELSE /\ active_conflicts' = WithRoom(active_conflicts, n, room)
            /\ lastOp' = [op |-> "forfeit", class |-> "applied", msg |-> msg]
            /\ UNCHANGED << dbVars, queryVars, threadVars, conflict_notices,
                            conflict_conclusions, writerVars, spinning, database_mutex, nodeVars >>

\* ------------------------------------------------------------------------
\* The Writer: transport, participants and rectification
\* ------------------------------------------------------------------------

\* rmf_traffic_ros2::convert of a route and of an itinerary to their messages.
ConvertRoute(r) == [map |-> r.map, trajectory |-> r.traj]

ConvertItinerary(routes) ==
  [i \in 1 .. Len(routes) |-> ConvertRoute(routes[i])]

\* Transport::set: the message it publishes on the ItinerarySet topic.
Transport_set(participant, itinerary, version) ==
  [topic |-> "ItinerarySet", participant |-> participant,
   itinerary |-> ConvertItinerary(itinerary), itinerary_version |-> version]

\* Transport::extend
Transport_extend(participant, routes, version) ==
  [topic |-> "ItineraryExtend", participant |-> participant,
   routes |-> ConvertItinerary(routes), itinerary_version |-> version]

\* Transport::delay
Transport_delay(participant, duration, version) ==
  [topic |-> "ItineraryDelay", participant |-> participant,
   delay |-> duration, itinerary_version |-> version]

\* Transport::erase(participant, routes, version)
Transport_erase(participant, routes, version) ==
  [topic |-> "ItineraryErase", participant |-> participant,
   routes |-> routes, itinerary_version |-> version]

\* Transport::erase(participant, version)
Transport_erase_all(participant, version) ==
  [topic |-> "ItineraryClear", participant |-> participant,
   itinerary_version |-> version]

\* A transport that stamps its messages with the version after the caller's.
Publish_NextVersion(call, participant) ==
  IF call.kind = "set"
    THEN Transport_set(participant, call.payload, Inc(call.version))
  ELSE IF call.kind = "extend"
    THEN Transport_extend(participant, call.payload, Inc(call.version))
  ELSE IF call.kind = "delay"
    THEN Transport_delay(participant, call.payload, Inc(call.version))
  ELSE IF call.kind = "erase"
    THEN Transport_erase(participant, call.payload, Inc(call.version))
  ELSE Transport_erase_all(participant, Inc(call.version))

\* The message the transport publishes for the writer call
\* call = [kind, payload, version] of a participant.
Publish(call, participant) ==
  IF call.kind = "set"
    THEN Transport_set(participant, call.payload, call.version)
  ELSE IF call.kind = "extend"
    THEN Transport_extend(participant, call.payload, call.version)
  ELSE IF call.kind = "delay"
    THEN Transport_delay(participant, call.payload, call.version)
  ELSE IF call.kind = "erase"
    THEN Transport_erase(participant, call.payload, call.version)
  ELSE Transport_erase_all(participant, call.version)

\* A participant of the Writer right after it is made: the version it
\* allocated last and the log of its writer calls.
NewWriterParticipant == [version |-> 0, log |-> << >>]

\* RectifierFactory::make, called when a participant is made: the stub of the
\* new requester replaces whatever the map held for the id.
make(participant) ==
  /\ stub_map' = (participant :> TRUE) @@ stub_map
  /\ writer_participants' =
       (participant :> NewWriterParticipant) @@ writer_participants
  /\ lastOp' = [op |-> "make", class |-> "made", participant |-> participant]
  /\ UNCHANGED << spinning, database_mutex, nodeVars, service_clients, dispatch, adapter, dbVars, queryVars, threadVars, negotiationVars,
                  retransmit_calls, itinerary_pub, register_call >>

\* The dispatcher's hold on a stub after the requester of the participant
\* is destroyed: the shared pointer keeps the stub, whose reference to the
\* requester dangles.
Destroyed(d, participant) ==
  IF d # None /\ d[1].msg.participant = participant
    THEN Some([d[1] EXCEPT !.requester = "destroyed"])
    ELSE d

\* The participant is destroyed and its requester with it: the weak pointer
\* of the map expires.
Expire(participant) ==
  /\ participant \in DOMAIN stub_map
  /\ stub_map[participant]
  /\ stub_map' = [stub_map EXCEPT ![participant] = FALSE]
  /\ writer_participants' = Remove(writer_participants, {participant})
  /\ dispatch' = Destroyed(dispatch, participant)
  /\ lastOp' = [op |-> "expire", class |-> "expired",
                participant |-> participant]
  /\ UNCHANGED << spinning, database_mutex, nodeVars, service_clients, adapter, dbVars, queryVars, threadVars, negotiationVars,
                  retransmit_calls, itinerary_pub, register_call >>

\* An edit of a participant's itinerary: the participant allocates the next
\* itinerary version, logs the call and hands it to the transport.
WriterEdit(participant, kind, payload) ==
  /\ participant \in DOMAIN writer_participants
  /\ LET call == [kind |-> kind, payload |-> payload,
                  version |-> Inc(writer_participants[participant].version)]
     IN /\ writer_participants' =
             [writer_participants EXCEPT
                ![participant].version = call.version,
                ![participant].log = Append(@, call)]
        /\ itinerary_pub' = << Publish(call, participant) >>
        /\ lastOp' = [op |-> "writer_edit", class |-> kind,
                      participant |-> participant, call |-> call]
  /\ UNCHANGED << spinning, database_mutex, nodeVars, service_clients, dispatch, adapter, dbVars, queryVars, threadVars, negotiationVars, stub_map,
                  retransmit_calls, register_call >>

RECURSIVE LoggedIn(_, _)
\* The calls of a log whose versions lie in one of the ranges.
LoggedIn(log, ranges) ==
  IF log = << >> THEN << >>
  ELSE (IF \E i \in 1 .. Len(ranges) :
             Head(log).version \in Interval(ranges[i].lower, ranges[i].upper)
          THEN << Head(log) >> ELSE << >>)
         \o LoggedIn(Tail(log), ranges)

\* Rectifier::retransmit: the logged calls of the ranges go to the transport
\* again, as they were.
Retransmit(participant, ranges) ==
  LET again == LoggedIn(writer_participants[participant].log, ranges) IN
  [i \in 1 .. Len(again) |-> Publish(again[i], participant)]

\* check_inconsistencies: the ranges of the message as the rectifier gets
\* them.
RectifierRanges(ranges) ==
  [i \in 1 .. Len(ranges) |->
     [lower |-> ranges[i].lower, upper |-> ranges[i].upper]]

\* A handler that asks for retransmission whatever the notice holds.
check_inconsistencies_Always(msg) ==
  /\ retransmit_calls' =
       << [participant |-> msg.participant,
           ranges |-> RectifierRanges(msg.ranges),
           last_known_version |-> msg.last_known_version] >>
  /\ itinerary_pub' =
       IF msg.participant \in DOMAIN writer_participants
         THEN Retransmit(msg.participant, msg.ranges) ELSE << >>
  /\ lastOp' = [op |-> "check_inconsistencies", class |-> "retransmit",
                msg |-> msg]
  /\ UNCHANGED << spinning, database_mutex, nodeVars, service_clients, dispatch, adapter, dbVars, queryVars, threadVars, negotiationVars, stub_map,
                  writer_participants, register_call >>

\* RectifierFactory::check_inconsistencies
check_inconsistencies(msg) ==
  /\ IF msg.ranges = << >>
       THEN /\ lastOp' = [op |-> "check_inconsistencies", class |-> "empty",
                          msg |-> msg]
            /\ retransmit_calls' = << >>
            /\ itinerary_pub' = << >>
            /\ UNCHANGED stub_map
     ELSE IF msg.participant \notin DOMAIN stub_map
       THEN /\ lastOp' = [op |-> "check_inconsistencies", class |-> "unknown",
                          msg |-> msg]
            /\ retransmit_calls' = << >>
            /\ itinerary_pub' = << >>
            /\ UNCHANGED stub_map
     ELSE IF ~stub_map[msg.participant]
       THEN /\ lastOp' = [op |-> "check_inconsistencies", class |-> "expired",
                          msg |-> msg]
            /\ stub_map' = Remove(stub_map, {msg.participant})
            /\ retransmit_calls' = << >>
            /\ itinerary_pub' = << >>
     ELSE /\ lastOp' = [op |-> "check_inconsistencies", class |-> "retransmit",
                        msg |-> msg]
          /\ retransmit_calls' =
               << [participant |-> msg.participant,
                   ranges |-> RectifierRanges(msg.ranges),
                   last_known_version |-> msg.last_known_version] >>
          /\ itinerary_pub' = Retransmit(msg.participant, msg.ranges)
          /\ UNCHANGED stub_map
  /\ UNCHANGED << spinning, database_mutex, nodeVars, service_clients, dispatch, adapter, dbVars, queryVars, threadVars, negotiationVars,
                  writer_participants, register_call >>

\* RectifierFactory::check_inconsistencies up to it->second.lock(): the
\* handler returns for empty ranges, an unknown participant and an expired
\* stub; otherwise it holds a shared pointer to the stub.
check_inconsistencies_lock(msg) ==
  /\ dispatch = None
  /\ IF /\ msg.ranges # << >>
        /\ msg.participant \in DOMAIN stub_map
        /\ stub_map[msg.participant]
       THEN /\ dispatch' =
                 Some([msg |-> msg, requester |-> "live",
                       again |-> Retransmit(msg.participant, msg.ranges)])
            /\ lastOp' = [op |-> "check_inconsistencies", class |-> "locked",
                          msg |-> msg]
            /\ UNCHANGED << spinning, database_mutex, nodeVars, service_clients,
                            dbVars, queryVars, threadVars, negotiationVars,
                            stub_map, retransmit_calls, itinerary_pub,
                            writer_participants, register_call, adapter >>
       ELSE check_inconsistencies(msg)

\* RectifierFactory::check_inconsistencies after lock(): the ranges are
\* copied and stub->requester.rectifier.retransmit is called.  When the
\* requester was destroyed in the meantime the call goes through a dangling
\* reference: it may send the logged edits it still finds, or nothing.
check_inconsistencies_call ==
  /\ dispatch # None
  /\ dispatch' = None
  /\ retransmit_calls' =
       << [participant |-> dispatch[1].msg.participant,
           ranges |-> RectifierRanges(dispatch[1].msg.ranges),
           last_known_version |-> dispatch[1].msg.last_known_version] >>
  /\ itinerary_pub' \in
       IF dispatch[1].requester = "live"
         THEN {Retransmit(dispatch[1].msg.participant, dispatch[1].msg.ranges)}
         ELSE {<< >>, dispatch[1].again}
  /\ lastOp' = [op |-> "retransmit", class |-> dispatch[1].requester,
                msg |-> dispatch[1].msg]
  /\ UNCHANGED << spinning, database_mutex, nodeVars, service_clients, dbVars,
                  queryVars, threadVars, negotiationVars, stub_map,
                  writer_participants, register_call, adapter >>

\* convert(RegisterParticipant::Response): the Registration of a response;
\* the error text is not part of it.
ConvertResponse(msg) ==
  [participant_id |-> msg.participant_id,
   last_itinerary_version |-> msg.last_itinerary_version,
   last_route_id |-> msg.last_route_id]

\* Transport::register_participant up to its loop: the request is sent and
\* the future of its response is held.  Calls are made one at a time, in a
\* context that is running when the call begins.
async_send_request ==
  /\ register_call.pc # "waiting"
  /\ register_call.ok
  /\ register_call' = [register_call EXCEPT !.pc = "waiting",
                                            !.future = None,
                                            !.result = None]
  /\ lastOp' = [op |-> "register_call", class |-> "send"]
  /\ UNCHANGED << spinning, database_mutex, nodeVars, service_clients, dispatch, adapter, dbVars, queryVars, threadVars, negotiationVars, stub_map,
                  retransmit_calls, itinerary_pub, writer_participants >>

\* The client's executor receives the response of the service and makes the
\* future ready.
ReceiveResponse(response) ==
  /\ register_call.pc = "waiting"
  /\ register_call.future = None
  /\ register_call' = [register_call EXCEPT !.future = Some(response)]
  /\ lastOp' = [op |-> "register_call", class |-> "response"]
  /\ UNCHANGED << spinning, database_mutex, nodeVars, service_clients, dispatch, adapter, dbVars, queryVars, threadVars, negotiationVars, stub_map,
                  retransmit_calls, itinerary_pub, writer_participants >>

\* The context of the node is shut down: rclcpp::ok(context) is false from
\* then on.
ContextShutdown ==
  /\ register_call.ok
  /\ register_call' = [register_call EXCEPT !.ok = FALSE]
  /\ lastOp' = [op |-> "register_call", class |-> "shutdown"]
  /\ UNCHANGED << spinning, database_mutex, nodeVars, service_clients, dispatch, adapter, dbVars, queryVars, threadVars, negotiationVars, stub_map,
                  retransmit_calls, itinerary_pub, writer_participants >>

wait_for_NoErrorCheck ==
  /\ register_call.pc = "waiting"
  /\ register_call.future # None \/ ~register_call.ok
  /\ IF register_call.future # None
       THEN /\ register_call' =
                 [register_call EXCEPT
                    !.pc = "returned",
                    !.result = Some(ConvertResponse(register_call.future[1]))]
            /\ lastOp' = [op |-> "register_call", class |-> "return"]
       ELSE /\ register_call' = [register_call EXCEPT !.pc = "thrown_shutdown"]
            /\ lastOp' = [op |-> "register_call", class |-> "throw"]
  /\ UNCHANGED << spinning, database_mutex, nodeVars, service_clients, dispatch, adapter, dbVars, queryVars, threadVars, negotiationVars, stub_map,
                  retransmit_calls, itinerary_pub, writer_participants >>

\* One round of the loop of Transport::register_participant and what follows
\* it.  future.wait_for(100ms) is tested first: a ready future leaves the
\* loop, whatever the context says, and the call throws on a response with
\* an error text and returns the converted response otherwise.  A wait that
\* times out throws when the context is shut down and waits again when it is
\* not (that round changes nothing and is no step).
wait_for ==
  /\ register_call.pc = "waiting"
  /\ register_call.future # None \/ ~register_call.ok
  /\ IF register_call.future # None
       THEN IF register_call.future[1].error # ""
              THEN /\ register_call' =
                        [register_call EXCEPT !.pc = "thrown_error"]
                   /\ lastOp' = [op |-> "register_call", class |-> "throw"]
              ELSE /\ register_call' =
                        [register_call EXCEPT
                           !.pc = "returned",
                           !.result =
                             Some(ConvertResponse(register_call.future[1]))]
                   /\ lastOp' = [op |-> "register_call", class |-> "return"]
       ELSE /\ register_call' = [register_call EXCEPT !.pc = "thrown_shutdown"]
            /\ lastOp' = [op |-> "register_call", class |-> "throw"]
  /\ UNCHANGED << spinning, database_mutex, nodeVars, service_clients, dispatch, adapter, dbVars, queryVars, threadVars, negotiationVars, stub_map,
                  retransmit_calls, itinerary_pub, writer_participants >>


\* ------------------------------------------------------------------------
\* Inputs.  A scenario I names the sets its messages are drawn from.
\* ------------------------------------------------------------------------

EditVersions == 0 .. MaxItineraryVersion

\* The itineraries clients send hold one route.
ItineraryInputs(routes) == {<< r >> : r \in routes}

EraseInputs == {{i} : i \in 1 .. MaxRouteId}

\* The versions of scenario I that an edit of participant p may carry: any
\* of them, or only the one that follows the last one when I.in_order.
VersionsFor(I, p) ==
  IF I.in_order /\ p \in DOMAIN database.entries
    THEN I.versions \cap {Inc(DbItineraryVersion(database, p))}
    ELSE I.versions

\* The clients of scenario I that may register: any of them, or only the
\* next one that has not registered yet when I.in_order.
KeysFor(I) ==
  IF I.in_order THEN I.keys \cap {Cardinality(DOMAIN registry) + 1}
  ELSE I.keys

\* Whether the registry operation may fail in scenario I.
Failures(I) == IF "failures" \in DOMAIN I THEN I.failures ELSE {FALSE}

Register(I) ==
  /\ current_participants_version < I.registrations
  /\ \E key \in KeysFor(I), u \in I.unresponsive, fails \in Failures(I) :
       register_participant(key, u, fails)

Unregister(I) ==
  /\ current_participants_version < I.registrations
  /\ \E id \in I.unregistrations : unregister_participant(id)

\* Scenario I lets the database change I.changes times; an edit the
\* database ignores is always allowed.  Clients edit with the id their
\* registration gave them; edits with an id the database does not know come
\* from the strangers of the scenario only.
Allowed(I, p, v) ==
  IF p \in DOMAIN database.entries
    THEN Classify(database.entries[p], v) # "duplicate"
           => database.version < I.changes
    ELSE "strangers" \in DOMAIN I /\ p \in I.strangers

EditSet(I) ==
  \E p \in I.participants, routes \in ItineraryInputs(I.routes) :
    \E v \in VersionsFor(I, p) :
      Allowed(I, p, v) /\ itinerary_set(p, v, routes)

EditExtend(I) ==
  \E p \in I.participants, routes \in ItineraryInputs(I.routes) :
    \E v \in VersionsFor(I, p) :
      Allowed(I, p, v) /\ itinerary_extend(p, v, routes)

EditDelay(I) ==
  \E p \in I.participants, d \in I.delays :
    \E v \in VersionsFor(I, p) :
      Allowed(I, p, v) /\ itinerary_delay(p, v, d)

EditErase(I) ==
  \E p \in I.participants, ids \in I.erases :
    \E v \in VersionsFor(I, p) :
      Allowed(I, p, v) /\ itinerary_erase(p, v, ids)

EditClear(I) ==
  \E p \in I.participants :
    \E v \in VersionsFor(I, p) :
      Allowed(I, p, v) /\ itinerary_clear(p, v)

\* One client whose edits arrive in any order of versions, also repeated.
DbInputs ==
  [keys |-> {1}, unresponsive |-> {FALSE}, registrations |-> MaxParticipants,
   participants |-> ParticipantIds, changes |-> MaxDbVersion,
   versions |-> EditVersions, in_order |-> FALSE,
   routes |-> {[map |-> "mapA", traj |-> 0]}, delays |-> {1},
   erases |-> {{1}}]

NextDb ==
  \/ Register(DbInputs)
  \/ EditSet(DbInputs)
  \/ EditExtend(DbInputs)
  \/ EditDelay(DbInputs)
  \/ EditErase(DbInputs)
  \/ EditClear(DbInputs)

\* The database and its edit handlers alone.
SpecDb == Init /\ [][NextDb]_vars

RegisterQuery(I) == \E query \in I.queries : register_query(query)

RequestChanges(I) ==
  \E id \in I.query_ids, version \in I.request_versions, full \in BOOLEAN :
    request_changes(id, version, full)

UpdateMirrors == update_mirrors

\* One client whose edits arrive in order, and the subscribers of a query
\* on one of the two maps.
MirrorInputs ==
  [keys |-> {1}, unresponsive |-> {FALSE}, registrations |-> 1,
   participants |-> 0 .. 1, changes |-> MaxDbVersion,
   versions |-> 1 .. MaxItineraryVersion - 1, in_order |-> TRUE,
   routes |-> {[map |-> "mapA", traj |-> 0], [map |-> "mapB", traj |-> 0]},
   delays |-> {1}, erases |-> {{1}},
   queries |-> {{"mapA"}}, query_ids |-> 1 .. 2,
   request_versions |-> {0}]

NextMirror ==
  \/ Register(MirrorInputs)
  \/ EditSet(MirrorInputs)
  \/ EditExtend(MirrorInputs)
  \/ EditDelay(MirrorInputs)
  \/ EditErase(MirrorInputs)
  \/ EditClear(MirrorInputs)
  \/ RegisterQuery(MirrorInputs)
  \/ RequestChanges(MirrorInputs)
  \/ UpdateMirrors

\* ScheduleInconsistency messages.
Notices(participants, ranges, versions) ==
  [participant : participants, ranges : ranges, last_known_version : versions]

\* A range of itinerary versions.
Range_(lower, upper) == [lower |-> lower, upper |-> upper]

\* A reconnection that makes new participants of the Writer's participants.
reconnect_services_Reset ==
  /\ service_clients.register_client < MaxReconnect
  /\ service_clients' =
       [register_client |-> service_clients.register_client + 1,
        unregister_client |-> service_clients.unregister_client + 1]
  /\ writer_participants' =
       [p \in DOMAIN writer_participants |-> NewWriterParticipant]
  /\ lastOp' = [op |-> "fail_over", class |-> "reconnected"]
  /\ UNCHANGED << spinning, database_mutex, nodeVars, dbVars, queryVars,
                  threadVars, negotiationVars, stub_map, retransmit_calls,
                  itinerary_pub, register_call, dispatch, adapter >>

\* Transport::reconnect_services, the callback of the FailOverEvent
\* subscription: a new client is created for each of the two services and
\* replaces the one the Transport held.
reconnect_services ==
  /\ service_clients.register_client < MaxReconnect
  /\ service_clients' =
       [register_client |-> service_clients.register_client + 1,
        unregister_client |-> service_clients.unregister_client + 1]
  /\ lastOp' = [op |-> "fail_over", class |-> "reconnected"]
  /\ UNCHANGED << spinning, database_mutex, nodeVars, dbVars, queryVars,
                  threadVars, negotiationVars, stub_map, retransmit_calls,
                  itinerary_pub, writer_participants, register_call, dispatch,
                  adapter >>

Make(I) == \E p \in I.participants : make(p)

ExpireRequester(I) == \E p \in I.participants : Expire(p)

Edit(I) ==
  \E p \in I.participants, e \in I.edits :
    /\ p \in DOMAIN writer_participants
    /\ writer_participants[p].version < I.max_version
    /\ WriterEdit(p, e.kind, e.payload)

Notice(I) == \E msg \in I.notices : check_inconsistencies(msg)

\* A Writer with two participants that edit their itineraries, and the
\* inconsistency notices of the schedule node, also for a participant the
\* Writer does not hold.
WriterInputs ==
  [participants |-> 0 .. 1, max_version |-> 2,
   edits |-> {[kind |-> "set", payload |-> << [map |-> "mapA", traj |-> 1] >>],
              [kind |-> "extend", payload |-> << [map |-> "mapB", traj |-> 0] >>],
              [kind |-> "delay", payload |-> 1],
              [kind |-> "erase", payload |-> << 1 >>],
              [kind |-> "clear", payload |-> << >>]},
   notices |-> Notices(0 .. 2,
                       {<< >>, << Range_(1, 1) >>,
                        << Range_(2, 2), Range_(1, 1) >>},
                       {MaxItineraryVersion})]

NextWriter ==
  \/ Make(WriterInputs)
  \/ ExpireRequester(WriterInputs)
  \/ Edit(WriterInputs)
  \/ Notice(WriterInputs)

\* The Writer of a client: its participants, its transport and its
\* rectifier factory.
SpecWriter == Init /\ [][NextWriter]_vars

\* A Writer with one participant that is made and destroyed again and
\* again, and notices for it and for a participant the Writer does not hold.
DispatchInputs ==
  [participants |-> {0}, max_version |-> 2,
   edits |-> {[kind |-> "set", payload |-> << [map |-> "mapA", traj |-> 1] >>],
              [kind |-> "clear", payload |-> << >>]},
   notices |-> Notices({0, 1}, {<< >>, << Range_(1, 1) >>, << Range_(1, 2) >>},
                       {MaxItineraryVersion})]

\* The notice handler in two steps, the participants being made and
\* destroyed on other threads.
NextDispatch ==
  \/ Make(DispatchInputs)
  \/ ExpireRequester(DispatchInputs)
  \/ Edit(DispatchInputs)
  \/ \E msg \in DispatchInputs.notices : check_inconsistencies_lock(msg)
  \/ check_inconsistencies_call

SpecDispatch == Init /\ [][NextDispatch]_vars

\* A step of the adapter or of what it waits for: nothing of the schedule
\* node and nothing inside the Writer changes.
AdapterStep(op, class, a) ==
  /\ adapter' = a
  /\ lastOp' = [op |-> op, class |-> class]
  /\ UNCHANGED << dbVars, queryVars, threadVars, negotiationVars, nodeVars,
                  spinning, database_mutex, stub_map, retransmit_calls,
                  itinerary_pub, writer_participants, register_call,
                  service_clients, dispatch >>

\* Adapter::Implementation::Implementation up to the start-up loop: the
\* node, the mirror future and the writer are made and stop_time is set.
Adapter_make(wait_time) ==
  /\ adapter.pc = "none"
  /\ AdapterStep("make", "started",
                 [adapter EXCEPT !.pc = "loop", !.wait_time = wait_time])

\* A service of the schedule node becomes visible to its client.
ServicesReady ==
  /\ adapter.pc # "none"
  /\ \E client \in {"register_client", "unregister_client"} :
       /\ client \notin adapter.services_ready
       /\ AdapterStep("services", client,
                      [adapter EXCEPT !.services_ready = @ \cup {client}])

\* The mirror future becomes ready.
MirrorReady ==
  /\ adapter.pc # "none"
  /\ ~adapter.mirror_ready
  /\ AdapterStep("mirror", "ready", [adapter EXCEPT !.mirror_ready = TRUE])

\* std::chrono::steady_clock advances.
AdapterClock ==
  /\ adapter.pc \in {"loop", "get"}
  /\ adapter.now < MaxTime
  /\ AdapterStep("clock", "tick", [adapter EXCEPT !.now = @ + 1])

\* rclcpp::shutdown: rclcpp::ok() becomes false.
AdapterShutdown ==
  /\ adapter.pc # "none"
  /\ adapter.ok
  /\ AdapterStep("shutdown", "shutdown", [adapter EXCEPT !.ok = FALSE])

\* A get that returns an absent mirror manager when the future is not ready.
mirror_future_get_NoWait ==
  /\ adapter.pc = "get"
  /\ AdapterStep("get", "made",
       [adapter EXCEPT
          !.pc = "made",
          !.mirror_manager =
             IF adapter.mirror_ready
               THEN Some([snapshot_handle |-> "snapshot"]) ELSE None,
          !.negotiation =
             IF adapter.mirror_ready
               THEN Some([snapshot_handle |-> "snapshot"]) ELSE None])

\* Adapter::Implementation::Implementation, one round of the start-up loop:
\* the loop condition, spin_some and the ready test.
StartupLoop ==
  /\ adapter.pc = "loop"
  /\ IF adapter.ok /\ adapter.now < adapter.wait_time
       THEN IF ready(adapter) /\ adapter.mirror_ready
              THEN AdapterStep("startup_loop", "ready",
                               [adapter EXCEPT !.pc = "get"])
              ELSE AdapterStep("startup_loop", "not_ready", adapter)
       ELSE AdapterStep("startup_loop", "stopped",
                        [adapter EXCEPT !.pc = "get"])

\* Adapter::Implementation::Implementation after the loop:
\* mirror_future.get() blocks until the future is ready, and the negotiation
\* is built from the snapshot handle of the mirror manager; Adapter::make
\* returns the Adapter.
mirror_future_get ==
  /\ adapter.pc = "get"
  /\ adapter.mirror_ready
  /\ AdapterStep("get", "made",
       [adapter EXCEPT
          !.pc = "made",
          !.mirror_manager = Some([snapshot_handle |-> "snapshot"]),
          !.negotiation = Some([snapshot_handle |-> "snapshot"])])

\* Adapter::add_fleet
add_fleet(fleet_name) ==
  /\ adapter.pc = "made"
  /\ Len(adapter.fleets) < MaxFleets
  /\ adapter.mirror_manager # None
  /\ AdapterStep("add_fleet", fleet_name,
       [adapter EXCEPT
          !.fleets =
             Append(@, [name |-> fleet_name, writer |-> "writer",
                        snapshot_handle |->
                          adapter.mirror_manager[1].snapshot_handle,
                        negotiation |-> adapter.negotiation])])

\* Adapter::make with any wait_time, the services and the mirror becoming
\* ready at any moment or never, and fleets added to the Adapter it returned.
NextAdapter ==
  \/ \E wait_time \in 0 .. MaxTime : Adapter_make(wait_time)
  \/ ServicesReady
  \/ MirrorReady
  \/ AdapterClock
  \/ AdapterShutdown
  \/ StartupLoop
  \/ mirror_future_get
  \/ \E fleet_name \in {"fleetA", "fleetB"} : add_fleet(fleet_name)

SpecAdapter == Init /\ [][NextAdapter]_vars

\* The Writer with the FailOverEvent messages of the monitor node.
NextFailOver ==
  \/ Make(WriterInputs)
  \/ ExpireRequester(WriterInputs)
  \/ Edit(WriterInputs)
  \/ reconnect_services

SpecFailOver == Init /\ [][NextFailOver]_vars

\* The responses the service may give to a registration: the participant's
\* id and the last versions the database knows of it, or an error text.
Responses ==
  [participant_id : 0 .. MaxParticipants - 1,
   last_itinerary_version : {0, MaxItineraryVersion, Modulus - 1},
   last_route_id : 0 .. MaxRouteId,
   error : {"", "exception"}]

Respond == \E response \in Responses : ReceiveResponse(response)

NextRegister ==
  \/ async_send_request
  \/ Respond
  \/ ContextShutdown
  \/ wait_for

\* A client that registers participants through the Writer, one call at a
\* time, while the service answers and the context may be shut down.
SpecRegister == Init /\ [][NextRegister]_vars

\* The calling thread keeps running: a round of the loop that can end the
\* call is eventually taken.
FairRegister == SpecRegister /\ WF_vars(wait_for)

\* Two clients that register, again and again, set their itineraries and
\* unregister; the registry operation may fail.
RegistryInputs ==
  [keys |-> 1 .. 2, unresponsive |-> BOOLEAN, registrations |-> MaxDbVersion + 1,
   failures |-> BOOLEAN, unregistrations |-> 0 .. 2,
   participants |-> 0 .. 2, changes |-> 2,
   versions |-> 1 .. 2, in_order |-> FALSE,
   routes |-> {[map |-> "mapA", traj |-> 0]}]

NextRegistry ==
  \/ Register(RegistryInputs)
  \/ Unregister(RegistryInputs)
  \/ EditSet(RegistryInputs)

\* The participant services of the node and the itinerary topic.
SpecRegistry == Init /\ [][NextRegistry]_vars

Subscribe(I) == \E id \in I.query_ids : Subscription(id, 1)

Unsubscribe(I) == \E id \in I.query_ids : Subscription(id, -1)

CleanupQueries == cleanup_queries

\* Mirrors that register queries on either map or on both, subscribe to the
\* update topics and leave again, while the clock runs and the cleanup
\* timer fires.
QueryInputs ==
  [queries |-> {{"mapA"}, {"mapB"}, Maps}, query_ids |-> 1 .. MaxQueryId]

NextQueries ==
  \/ RegisterQuery(QueryInputs)
  \/ Subscribe(QueryInputs)
  \/ Unsubscribe(QueryInputs)
  \/ Elapse
  \/ CleanupQueries

\* The query registry of the node: the register_query service and the
\* cleanup timer.
SpecQueries == Init /\ [][NextQueries]_vars

\* The database, the query registry and the update tick.
SpecMirror == Init /\ [][NextMirror]_vars

\* One client, one query, and subscribers that ask for remedial updates
\* while the update tick runs.
TickInputs ==
  [keys |-> {1}, unresponsive |-> {FALSE}, registrations |-> 1,
   participants |-> {0}, changes |-> MaxDbVersion,
   versions |-> 1 .. MaxItineraryVersion - 1, in_order |-> TRUE,
   routes |-> {[map |-> "mapA", traj |-> 0]},
   queries |-> {{"mapA"}}, query_ids |-> 1 .. 2,
   request_versions |-> {0}]

NextTick ==
  \/ Register(TickInputs)
  \/ EditSet(TickInputs)
  \/ RegisterQuery(TickInputs)
  \/ RequestChanges(TickInputs)
  \/ TickRemedial
  \/ TickClear
  \/ TickAdvance

\* The update tick on the timer thread and the request_changes callbacks on
\* the executor: nothing orders the callbacks against the steps of the tick.
SpecTick == Init /\ [][NextTick]_vars

\* std::unique_lock<std::mutex> lock(database_mutex), the first statement of
\* an edit handler.
lock_database(owner) ==
  /\ spinning
  /\ database_mutex = None
  /\ database_mutex' = Some(owner)
  /\ lastOp' = [op |-> "lock", class |-> owner]
  /\ UNCHANGED << dbVars, queryVars, threadVars, negotiationVars, writerVars,
                  spinning, nodeVars >>

\* The end of the handler's scope: the lock is released.
unlock_database ==
  /\ spinning
  /\ database_mutex # None
  /\ database_mutex' = None
  /\ lastOp' = [op |-> "unlock", class |-> database_mutex[1]]
  /\ UNCHANGED << dbVars, queryVars, threadVars, negotiationVars, writerVars,
                  spinning, nodeVars >>

\* register_participant takes database_mutex for the whole of its body.
LockedRegister(I) == database_mutex = None /\ Register(I)

Lock == lock_database("itinerary_set")

\* itinerary_set between the lock and the end of its scope.
LockedEditSet(I) == database_mutex = Some("itinerary_set") /\ EditSet(I)

Unlock == unlock_database

\* update_mirrors and update_query take no lock: the tick runs whoever holds
\* database_mutex.
NextLock ==
  \/ LockedRegister(TickInputs)
  \/ RegisterQuery(TickInputs)
  \/ Lock
  \/ LockedEditSet(TickInputs)
  \/ Unlock
  \/ UpdateMirrors

\* The edit handler of ItinerarySet messages with the lock it holds, and
\* the update tick.
SpecLock == Init /\ [][NextLock]_vars

\* A node whose database has reached any version of the counter, the log
\* behind it culled, with one query to which the tick has sent nothing yet
\* or the latest version.
InitRemediation ==
  \E v \in Versions, sent \in BOOLEAN :
    /\ database = [EmptyDatabase EXCEPT !.version = v]
    /\ registry = << >>
    /\ current_participants_version = 0
    /\ inconsistency_pub = << >>
    /\ participants_info = NoParticipantsInfo
    /\ registered_queries =
         (1 :> [NewQueryInfo({"mapA"}, 0) EXCEPT
                  !.last_sent_version = IF sent THEN Some(v) ELSE None])
    /\ last_query_id = 1
    /\ now = 0
    /\ queries_info = broadcast_queries(registered_queries)
    /\ subscription_count = (1 :> 0)
    /\ mirror_updates = << >>
    /\ incremental_mirror = (1 :> EmptyMirror)
    /\ mirror_tick = IdleTick
    /\ active_conflicts = NewConflictRecord
    /\ conflict_check = NewConflictCheck
    /\ last_known_participants_version = 0
    /\ conflict_notices = << >>
    /\ conflict_conclusions = << >>
    /\ applied_versions = << >>
    /\ NewWriter
    /\ spinning = TRUE
    /\ database_mutex = None
    /\ active_conflicts_mutex = None
    /\ conflict_check_quit = FALSE
    /\ destructor = "none"
    /\ lastOp = [op |-> "init", class |-> "init"]

\* Requests for the changes since the versions at the ends and in the middle
\* of the counter's range.
RemediationInputs ==
  [query_ids |-> {1}, request_versions |-> {0, 1, Half, Modulus - 1}]

NextRemediation == RequestChanges(RemediationInputs)

\* request_changes over the whole range of the version counter.
SpecRemediation == InitRemediation /\ [][NextRemediation]_vars

\* The ids at the two ends of the counter's range.
EndIds == {0, 1, Modulus - 2, Modulus - 1}

\* A node, possibly one that replaced another and took over its queries,
\* that holds up to two queries under ids at the ends of the range, with
\* last_query_id anywhere among them.
InitAllocation ==
  \E ids \in SUBSET EndIds, last \in EndIds :
    /\ Cardinality(ids) <= 2
    /\ database = EmptyDatabase
    /\ registry = << >>
    /\ current_participants_version = 0
    /\ inconsistency_pub = << >>
    /\ participants_info = NoParticipantsInfo
    /\ registered_queries =
         [id \in ids |->
            NewQueryInfo(IF \A other \in ids : id <= other
                           THEN {"mapA"} ELSE {"mapB"}, 0)]
    /\ last_query_id = last
    /\ now = 0
    /\ queries_info = broadcast_queries(registered_queries)
    /\ subscription_count = [id \in ids |-> 0]
    /\ mirror_updates = << >>
    /\ incremental_mirror = [id \in ids |-> EmptyMirror]
    /\ mirror_tick = IdleTick
    /\ active_conflicts = NewConflictRecord
    /\ conflict_check = NewConflictCheck
    /\ last_known_participants_version = 0
    /\ conflict_notices = << >>
    /\ conflict_conclusions = << >>
    /\ applied_versions = << >>
    /\ NewWriter
    /\ spinning = TRUE
    /\ database_mutex = None
    /\ active_conflicts_mutex = None
    /\ conflict_check_quit = FALSE
    /\ destructor = "none"
    /\ lastOp = [op |-> "init", class |-> "init"]

AllocationInputs == [queries |-> {{"mapA"}, {"mapB"}, Maps, {}}]

NextAllocation == RegisterQuery(AllocationInputs)

\* register_query where the ids wrap around.
SpecAllocation == InitAllocation /\ [][NextAllocation]_vars

ReceiveProposal(I) == \E msg \in I.proposals : receive_proposal(msg)

ReceiveRejection(I) == \E msg \in I.rejections : receive_rejection(msg)

ReceiveForfeit(I) == \E msg \in I.forfeits : receive_forfeit(msg)

ReceiveRefusal(I) == \E msg \in I.refusals : receive_refusal(msg)

ReceiveAck(I) == \E msg \in I.acks : receive_conclusion_ack(msg)

\* The mutexes a handler holds.
Held(h) ==
  (IF database_mutex = Some(h) THEN {"database_mutex"} ELSE {})
    \cup (IF active_conflicts_mutex = Some(h)
            THEN {"active_conflicts_mutex"} ELSE {})

\* Edit handlers that take active_conflicts_mutex before database_mutex.
LockOrder_Reversed(h) ==
  IF h \in {"itinerary_set", "itinerary_clear"}
    THEN << "active_conflicts_mutex", "database_mutex" >>
    ELSE << "active_conflicts_mutex" >>

\* The mutexes a handler locks, in the order of its lock statements: lock
\* and lock2 of the itinerary handlers, lock of the negotiation handlers.
LockOrder(h) ==
  IF h \in {"itinerary_set", "itinerary_clear"}
    THEN << "database_mutex", "active_conflicts_mutex" >>
    ELSE << "active_conflicts_mutex" >>

\* The handler h has reached the lock statement of mutex m: it holds the
\* mutexes its earlier lock statements took and no other.
Wants(h, m) ==
  LET n == Cardinality(Held(h)) IN
  /\ n < Len(LockOrder(h))
  /\ LockOrder(h)[n + 1] = m
  /\ Held(h) = {LockOrder(h)[i] : i \in 1 .. n}

\* The handler h is past its last lock statement.
HoldsAll(h) == Held(h) = {LockOrder(h)[i] : i \in 1 .. Len(LockOrder(h))}

\* std::lock_guard<std::mutex> lock2(active_conflicts_mutex) of an itinerary
\* handler, std::unique_lock<std::mutex> lock(active_conflicts_mutex) of a
\* negotiation handler.
lock_active_conflicts(owner) ==
  /\ spinning
  /\ active_conflicts_mutex = None
  /\ active_conflicts_mutex' = Some(owner)
  /\ lastOp' = [op |-> "lock2", class |-> owner]
  /\ UNCHANGED << dbVars, queryVars, threadVars, negotiationVars, writerVars,
                  spinning, database_mutex, conflict_check_quit, destructor >>

\* The next lock statement of handler h, when the mutex is free.
LockNext(h) ==
  \/ Wants(h, "database_mutex") /\ lock_database(h)
  \/ Wants(h, "active_conflicts_mutex") /\ lock_active_conflicts(h)

\* The end of the body of handler h: its locks are released.
Return(h) ==
  /\ spinning
  /\ HoldsAll(h)
  /\ database_mutex' = IF database_mutex = Some(h) THEN None ELSE database_mutex
  /\ active_conflicts_mutex' =
       IF active_conflicts_mutex = Some(h) THEN None ELSE active_conflicts_mutex
  /\ lastOp' = [op |-> "return", class |-> h]
  /\ UNCHANGED << dbVars, queryVars, threadVars, negotiationVars, writerVars,
                  spinning, conflict_check_quit, destructor >>

\* The handlers the executor runs side by side.
Handlers == {"itinerary_set", "itinerary_clear", "receive_forfeit"}

\* Two clients that set and clear a route on one map and forfeit.
OrderInputs ==
  [keys |-> Keys, unresponsive |-> {FALSE}, registrations |-> 2,
   participants |-> {0, 1}, changes |-> 2,
   versions |-> EditVersions, in_order |-> TRUE,
   routes |-> {[map |-> "mapA", traj |-> 0]},
   forfeits |-> [conflict_version : {0},
                 table : {<< [participant |-> p,
                              version |-> InitialTableVersion] >> : p \in {0, 1}}]]

\* Every handler between its last lock statement and its return, the
\* registration and the sections of the conflict-check thread under the mutex
\* each of them locks.
NextOrder ==
  \/ database_mutex = None /\ Register(OrderInputs)
  \/ \E h \in Handlers : LockNext(h)
  \/ HoldsAll("itinerary_set") /\ EditSet(OrderInputs)
  \/ HoldsAll("itinerary_clear") /\ EditClear(OrderInputs)
  \/ HoldsAll("receive_forfeit") /\ ReceiveForfeit(OrderInputs)
  \/ \E h \in Handlers : Return(h)
  \/ database_mutex = None /\ ConflictCheckLocked
  \/ active_conflicts_mutex = None /\ ConflictInsert
  \/ ConflictNotify

\* The itinerary handlers, a negotiation handler and the conflict-check
\* thread with the mutexes they lock.
SpecOrder == Init /\ [][NextOrder]_vars

\* The root table of participant p before any submission.
RootKey(p) == << [participant |-> p, version |-> InitialTableVersion] >>

\* Three responsive clients that set and clear a route on one map, the
\* conflict detector, and negotiators that forfeit.
ConflictInputs ==
  [keys |-> Keys, unresponsive |-> {FALSE}, registrations |-> MaxParticipants,
   participants |-> 0 .. MaxParticipants - 1, changes |-> MaxDbVersion,
   versions |-> EditVersions, in_order |-> TRUE,
   routes |-> {[map |-> "mapA", traj |-> 0]},
   forfeits |-> [conflict_version : {0},
                 table : {RootKey(p) : p \in 0 .. MaxParticipants - 1}]]

NextConflict ==
  \/ Register(ConflictInputs)
  \/ EditSet(ConflictInputs)
  \/ EditClear(ConflictInputs)
  \/ ConflictCheckLocked
  \/ ConflictInsert
  \/ ConflictNotify
  \/ ReceiveForfeit(ConflictInputs)

\* The database, the conflict detector and the end of a negotiation.
SpecConflict == Init /\ [][NextConflict]_vars

\* The next step of the conflict-check thread: its three sections follow
\* one another, so at most one of them is enabled.
ConflictThread == ConflictCheckLocked \/ ConflictInsert \/ ConflictNotify

\* The conflict-check thread is scheduled again and again; the messages of
\* the clients arrive when they arrive.
FairConflict == SpecConflict /\ WF_vars(ConflictThread)

\* conflict_check_thread.joinable(): setup has started the thread.
joinable == conflict_check.pc # "unstarted"

\* The node after the constructor that does not call setup: no subscription,
\* no service and no conflict-check thread yet.
InitNoSetup ==
  /\ database = EmptyDatabase
  /\ registry = << >>
  /\ current_participants_version = 0
  /\ inconsistency_pub = << >>
  /\ participants_info = NoParticipantsInfo
  /\ registered_queries = << >>
  /\ last_query_id = 0
  /\ now = 0
  /\ queries_info = FirstQueriesInfo
  /\ subscription_count = << >>
  /\ mirror_updates = << >>
  /\ incremental_mirror = << >>
  /\ mirror_tick = IdleTick
  /\ active_conflicts = NewConflictRecord
  /\ conflict_check = [NewConflictCheck EXCEPT !.pc = "unstarted"]
  /\ last_known_participants_version = 0
  /\ conflict_notices = << >>
  /\ conflict_conclusions = << >>
  /\ applied_versions = << >>
  /\ NewWriter
  /\ spinning = TRUE
  /\ database_mutex = None
  /\ active_conflicts_mutex = None
  /\ conflict_check_quit = FALSE
  /\ destructor = "none"
  /\ lastOp = [op |-> "init", class |-> "init"]

\* ScheduleNode::setup, its last statements: conflict_check_quit = false and
\* the conflict-check thread is started.
Setup ==
  /\ ~joinable
  /\ destructor = "none"
  /\ conflict_check' = NewConflictCheck
  /\ conflict_check_quit' = FALSE
  /\ lastOp' = [op |-> "setup", class |-> "started"]
  /\ UNCHANGED << dbVars, queryVars, last_known_participants_version,
                  negotiationVars, writerVars, spinning, database_mutex,
                  active_conflicts_mutex, destructor >>

\* ScheduleNode::~ScheduleNode: the quit flag is set; the destructor joins
\* the thread when it is joinable and returns otherwise.
Destroy ==
  /\ destructor = "none"
  /\ conflict_check_quit' = TRUE
  /\ destructor' = IF joinable THEN "join" ELSE "returned"
  /\ lastOp' = [op |-> "destroy", class |-> IF joinable THEN "join" ELSE "returned"]
  /\ UNCHANGED << dbVars, queryVars, threadVars, negotiationVars, writerVars,
                  spinning, database_mutex, active_conflicts_mutex >>

\* conflict_check_thread: the loop condition finds conflict_check_quit set
\* and the thread function returns; every lock of the thread was local to a
\* scope of the loop body.
ConflictQuit ==
  /\ conflict_check.pc = "wait"
  /\ conflict_check_quit
  /\ conflict_check' = [conflict_check EXCEPT !.pc = "exited"]
  /\ lastOp' = [op |-> "quit", class |-> "exited"]
  /\ UNCHANGED << dbVars, queryVars, last_known_participants_version,
                  negotiationVars, writerVars, spinning, database_mutex, nodeVars >>

\* conflict_check_thread.join() returns once the thread function has
\* returned.
Join ==
  /\ destructor = "join"
  /\ conflict_check.pc = "exited"
  /\ destructor' = "returned"
  /\ lastOp' = [op |-> "join", class |-> "returned"]
  /\ UNCHANGED << dbVars, queryVars, threadVars, negotiationVars, writerVars,
                  spinning, database_mutex, active_conflicts_mutex,
                  conflict_check_quit >>

\* Two clients that set a route on one map.
ShutdownInputs ==
  [keys |-> Keys, unresponsive |-> {FALSE}, registrations |-> 2,
   participants |-> {0, 1}, changes |-> MaxDbVersion,
   versions |-> EditVersions, in_order |-> TRUE,
   routes |-> {[map |-> "mapA", traj |-> 0]}]

\* The callbacks exist once setup has run.
NextShutdown ==
  \/ Setup
  \/ joinable /\ Register(ShutdownInputs)
  \/ joinable /\ EditSet(ShutdownInputs)
  \/ ConflictCheckLocked
  \/ ConflictInsert
  \/ ConflictNotify
  \/ ConflictQuit
  \/ Destroy
  \/ Join

\* The node from its construction to the return of its destructor.
SpecShutdown == InitNoSetup /\ [][NextShutdown]_vars

\* The conflict-check thread and the destructor are scheduled again and
\* again.
FairShutdown ==
  SpecShutdown /\ WF_vars(ConflictThread \/ ConflictQuit) /\ WF_vars(Join)

\* The key of a table after the first submission to it.
Key(p) == [participant |-> p, version |-> 1]

\* ConflictProposal messages.  The itinerary is abstracted to its finish
\* time.
Proposal(n, p, keys, finish) ==
  [conflict_version |-> n, for_participant |-> p, to_accommodate |-> keys,
   finish |-> finish, proposal_version |-> 1]

\* Participant 0 proposes, 1 and 2 accommodate it, and each of them
\* accommodates the other: the branch 0, 2, 1 finishes before the branch
\* 0, 1, 2.  One proposal names a negotiation that does not exist.
NegotiationProposals ==
  {Proposal(0, 0, << >>, 0),
   Proposal(0, 1, << Key(0) >>, 0),
   Proposal(0, 2, << Key(0) >>, 0),
   Proposal(0, 2, << Key(0), Key(1) >>, MaxTraj),
   Proposal(0, 1, << Key(0), Key(2) >>, 0),
   Proposal(1, 0, << >>, 0)}

\* The messages of the negotiation of three clients.  Of a
\* ConflictRejection only the table is modelled.
NegotiationInputs ==
  [proposals |-> NegotiationProposals,
   rejections |-> [conflict_version : 0 .. 1,
                   table : {<< Key(0) >>, << Key(0), Key(1) >>}],
   forfeits |-> [conflict_version : 0 .. 1,
                 table : {RootKey(p) : p \in 0 .. 2}],
   refusals |-> [conflict_version : 0 .. 1]]

\* The descriptions of three responsive participants.
Negotiators == [p \in 0 .. 2 |-> [key |-> p + 1, unresponsive |-> FALSE]]

\* The database once the three have registered and each has set a route
\* that occupies the same slot of the same map.
ConflictingDatabase ==
  LET route == << [map |-> "mapA", traj |-> 0] >>
      D0 == DbRegister(EmptyDatabase, 0, Negotiators[0])
      D1 == DbRegister(D0, 1, Negotiators[1])
      D2 == DbRegister(D1, 2, Negotiators[2])
      D3 == DbEdit(D2, 0, 1, "set", route, {}, 0)
      D4 == DbEdit(D3, 1, 1, "set", route, {}, 0)
  IN DbEdit(D4, 2, 1, "set", route, {}, 0)

\* The state of the node, but for lastOp, once the conflict detector has
\* seen ConflictingDatabase in one pass, has opened negotiation 0 for
\* participants 0 and 1, has added participant 2 to it and has published
\* its ConflictNotice.
NegotiationOpened ==
  /\ database = ConflictingDatabase
  /\ registry = [k \in 1 .. 3 |-> k - 1]
  /\ current_participants_version = 3
  /\ inconsistency_pub = [p \in 0 .. 2 |-> None]
  /\ participants_info = [published |-> 3, participants |-> {0, 1, 2}]
  /\ applied_versions = [p \in 0 .. 2 |-> {0, 1}]
  /\ registered_queries = << >>
  /\ last_query_id = 0
  /\ now = 0
  /\ queries_info = FirstQueriesInfo
  /\ subscription_count = << >>
  /\ mirror_updates = << >>
  /\ incremental_mirror = << >>
  /\ mirror_tick = IdleTick
  /\ active_conflicts =
       Insert(Insert(NewConflictRecord, {0, 1}).record, {0, 2}).record
  /\ conflict_check =
       [NewConflictCheck EXCEPT
          !.mirror = FilteredState(ConflictingDatabase, Maps),
          !.participants = Negotiators,
          !.last_checked_version = ConflictingDatabase.version]
  /\ last_known_participants_version = 3
  /\ conflict_notices =
       << [conflict_version |-> 0, participants |-> {0, 1, 2}] >>
  /\ conflict_conclusions = << >>
  /\ NewWriter
  /\ spinning = TRUE
  /\ database_mutex = None
  /\ active_conflicts_mutex = None
  /\ conflict_check_quit = FALSE
  /\ destructor = "none"

\* A negotiation starts when its ConflictNotice has been published.
InitNegotiation ==
  /\ NegotiationOpened
  /\ lastOp = [op |-> "notice", class |-> "published"]

NextNegotiation ==
  \/ ReceiveProposal(NegotiationInputs)
  \/ ReceiveRejection(NegotiationInputs)
  \/ ReceiveForfeit(NegotiationInputs)
  \/ ReceiveRefusal(NegotiationInputs)

\* The negotiation handlers, from the state in which a negotiation of three
\* participants has been opened.
SpecNegotiation == InitNegotiation /\ [][NextNegotiation]_vars

\* The messages of one negotiation that arrive in any order: the proposals of
\* negotiation 0, the rejection of the root proposal of participant 0, and
\* forfeits of a root table and of tables that exist only once the
\* proposals above them are submitted.
CacheInputs ==
  [proposals |-> {m \in NegotiationProposals : m.conflict_version = 0},
   rejections |-> [conflict_version : {0}, table : {<< Key(0) >>}],
   forfeits |-> [conflict_version : {0},
                 table : {RootKey(2), << Key(0), Key(1) >>,
                          << Key(0), Key(1), Key(2) >>}]]

NextCache ==
  \/ ReceiveProposal(CacheInputs)
  \/ ReceiveRejection(CacheInputs)
  \/ ReceiveForfeit(CacheInputs)

\* The negotiation handlers under messages delivered out of order.
SpecCache == InitNegotiation /\ [][NextCache]_vars

\* ConflictAck messages with one acknowledgment: not updating, or updating
\* to an itinerary version.
Acks(versions, participants, updates) ==
  {[conflict_version |-> n, acknowledgments |-> << a >>] :
     n \in versions,
     a \in {x \in [participant : participants, updating : BOOLEAN,
                   itinerary_version : {0} \cup updates] :
              x.updating <=> x.itinerary_version # 0}}

\* The negotiators give up, so that the negotiation is concluded, and two of
\* them acknowledge the conclusion and go on editing their itineraries.
AckInputs ==
  [participants |-> 0 .. 1, changes |-> MaxDbVersion + 2,
   versions |-> 2 .. 3, in_order |-> FALSE,
   routes |-> {[map |-> "mapB", traj |-> 0]}, delays |-> {1}, erases |-> {{1}},
   forfeits |-> [conflict_version : {0}, table : {RootKey(p) : p \in 0 .. 2}],
   acks |-> Acks(0 .. 1, 0 .. 1, 2 .. 3)]

NextAck ==
  \/ ReceiveForfeit(AckInputs)
  \/ ReceiveAck(AckInputs)
  \/ EditSet(AckInputs)
  \/ EditExtend(AckInputs)
  \/ EditDelay(AckInputs)
  \/ EditErase(AckInputs)
  \/ EditClear(AckInputs)

\* The end of a negotiation: its conclusion, the acknowledgements and the
\* itinerary edits that follow.
SpecAck == InitNegotiation /\ [][NextAck]_vars

\* The negotiators give up, one of them announces an itinerary update, and
\* edits arrive from it and from a client that never registered.
UnknownInputs ==
  [participants |-> {0, MaxParticipants}, strangers |-> {MaxParticipants},
   changes |-> MaxDbVersion + 1,
   versions |-> 2 .. 3, in_order |-> FALSE,
   routes |-> {[map |-> "mapB", traj |-> 0]}, delays |-> {1}, erases |-> {{1}},
   forfeits |-> [conflict_version : {0}, table : {RootKey(p) : p \in 0 .. 2}],
   acks |-> Acks({0}, {0}, {3})]

NextUnknown ==
  \/ ReceiveForfeit(UnknownInputs)
  \/ ReceiveAck(UnknownInputs)
  \/ EditSet(UnknownInputs)
  \/ EditExtend(UnknownInputs)
  \/ EditDelay(UnknownInputs)
  \/ EditErase(UnknownInputs)
  \/ EditClear(UnknownInputs)

\* The edit handlers of a node that holds obligations of a concluded
\* negotiation, with edits of a participant the database does not know.
SpecUnknown == InitNegotiation /\ [][NextUnknown]_vars

\* Three clients, responsive or not, that put routes on two maps and delay
\* them, and the conflict detector.
DetectInputs ==
  [keys |-> Keys, unresponsive |-> BOOLEAN, registrations |-> MaxParticipants,
   participants |-> 0 .. MaxParticipants - 1, changes |-> MaxDbVersion,
   versions |-> EditVersions, in_order |-> TRUE,
   routes |-> {[map |-> "mapA", traj |-> 0], [map |-> "mapB", traj |-> 1]},
   delays |-> {1}]

NextDetect ==
  \/ Register(DetectInputs)
  \/ EditSet(DetectInputs)
  \/ EditDelay(DetectInputs)
  \/ ConflictCheckLocked
  \/ ConflictInsert
  \/ ConflictNotify

\* The database and the conflict detector.
SpecDetect == Init /\ [][NextDetect]_vars

\* ------------------------------------------------------------------------
\* Properties of the database's version tracking
\* ------------------------------------------------------------------------

Registered == DOMAIN database.entries

\* The versions an inconsistency set covers.
Covered(ranges) == {v \in Versions : InRanges(ranges, v)}

\* The versions of [0, latest_version(p)] no edit has carried yet.
Unreceived(p) ==
  Interval(0, database.entries[p].latest) \ applied_versions[p]

EditKinds == {"set", "extend", "delay", "erase", "clear"}

\* Participant p was edited by the step.
Edited(p) ==
  /\ p \in Registered
  /\ lastOp'.op \in EditKinds
  /\ applied_versions'[p] # applied_versions[p] \/ database'.entries[p] # database.entries[p]

C3_Ranges ==
  \A p \in Registered :
    /\ database.entries[p].ranges = {} <=> Unreceived(p) = {}
    /\ Covered(database.entries[p].ranges) = Unreceived(p)

C3_Gap ==
  \A p \in Registered :
    (lastOp'.class = "gap" /\ Edited(p)) =>
      LET L == database.entries[p].latest
          v == database'.entries[p].latest
      IN /\ ModLess(Inc(L), v)
         /\ << Inc(L), Dec(v) >> \notin database.entries[p].ranges
         /\ database'.entries[p].ranges =
              database.entries[p].ranges \cup {<< Inc(L), Dec(v) >>}
         /\ (v = Inc(Inc(L)) /\ database.entries[p].ranges = {})
              => database'.entries[p].ranges = {<< Inc(L), Inc(L) >>}

\* C3: for every participant the inconsistency set is empty iff every
\* version of [0, latest_version] has been applied (the ranges cover exactly
\* the versions not yet received), and an edit at a version v > L+1 adds
\* exactly the range [L+1, v-1]; at L+2 that is the range [L+1, L+1].
Thm_C3 == [](C3_Ranges) /\ [][C3_Gap]_vars

\* An edit at latest+2 has just left the single range [latest+1, latest+1].
Wit_C3 ==
  \E p \in Registered :
    /\ lastOp.class = "gap"
    /\ database.entries[p].latest = 3
    /\ database.entries[p].ranges = {<< 2, 2 >>}
    /\ applied_versions[p] = {0, 1, 3}

\* C4 as stated: an edit whose version v satisfies v <= L (modular) leaves
\* the itinerary, L, the inconsistency ranges, database_version and the
\* change log unchanged.
Cex_C4 ==
  [][(lastOp'.op \in EditKinds /\ lastOp'.class \in {"fill", "duplicate"})
       => database' = database]_vars

\* C4 as amended: an edit whose version v satisfies v <= L (modular) and
\* names no version of an inconsistency range, that is a version already
\* received, is ignored: itinerary, L, inconsistency ranges,
\* database_version and change log are unchanged, so a replay of a delivered
\* edit leaves the database as it was after the first delivery.
Thm_C4 ==
  [][/\ (lastOp'.op \in EditKinds /\ lastOp'.class = "duplicate")
          => database' = database
     /\ \A p \in Registered :
          (Edited(p) /\ lastOp'.class # "duplicate") =>
            \A v \in applied_versions'[p] :
              Classify(database'.entries[p], v) = "duplicate"]_vars

\* A replayed edit has just been ignored by a database that had applied
\* three edits.
Wit_C4 ==
  /\ lastOp.op \in EditKinds
  /\ lastOp.class = "duplicate"
  /\ database.version = 3

C5_Fill ==
  \A p \in Registered :
    (lastOp'.class = "fill" /\ Edited(p)) =>
      LET filled == applied_versions'[p] \ applied_versions[p]
          before == database.entries[p].ranges
          after == database'.entries[p].ranges
      IN /\ Cardinality(filled) = 1
         /\ filled \subseteq Covered(before)
         /\ Covered(after) = Covered(before) \ filled
         /\ database'.entries[p].latest = database.entries[p].latest
         /\ after # {} =>
              inconsistency_pub'[p] =
                Some([ranges |-> after,
                      last_known_version |-> database'.entries[p].latest])

C5_Scenario ==
  \A p \in Registered :
    ({1, 2, 3} \subseteq applied_versions[p] /\ database.entries[p].latest = 3)
      => database.entries[p].ranges = {}

\* C5: an edit that carries a version of an inconsistency range removes
\* exactly that version from the ranges (and the shrunk ranges are
\* published); once every missing version has arrived the set is empty:
\* after versions 3, 1 and 2 the inconsistency set is empty.
Thm_C5 == [](C5_Scenario) /\ [][C5_Fill]_vars

\* extend(v=3), extend(v=1), extend(v=2) have arrived and the last one
\* cleared the range.
Wit_C5 ==
  \E p \in Registered :
    /\ lastOp = [op |-> "extend", class |-> "fill"]
    /\ applied_versions[p] = {0, 1, 2, 3}
    /\ Len(database.entries[p].itin) = 3
    /\ database.entries[p].ranges = {}
    /\ inconsistency_pub[p] =
         Some([ranges |-> {<< 2, 2 >>}, last_known_version |-> 3])

\* ------------------------------------------------------------------------
\* Properties of the mirror fan-out
\* ------------------------------------------------------------------------

\* The queries with a pending request for a full update.
FullUpdateRequested ==
  {id \in DOMAIN registered_queries :
     None \in registered_queries[id].remediation_requests}

\* The messages of a sequence as a set.
Published(msgs) == {msgs[i] : i \in 1 .. Len(msgs)}

\* C10: the update tick that follows request_changes(query_id, version,
\* full_update = true) for a registered query publishes a MirrorUpdate with
\* is_remedial_update = true whose patch, applied to an empty mirror, yields
\* the current database state filtered by the query, which is also the state
\* of a mirror that applied every incremental patch of the query.
Thm_C10 ==
  [][lastOp'.op = "update_mirrors" =>
       \A id \in FullUpdateRequested :
         \E m \in Published(mirror_updates'[id]) :
           /\ m.is_remedial_update
           /\ m.query_id = id
           /\ MirrorUpdate(EmptyMirror, m.patch) =
                FilteredState(database', registered_queries[id].query)
           /\ MirrorUpdate(EmptyMirror, m.patch) = incremental_mirror'[id]]_vars

\* A tick has answered a full-update request for a query whose mirror holds
\* a route, while the database also holds a route the query filters out.
Wit_C10 ==
  /\ lastOp.op = "update_mirrors"
  /\ \E id \in DOMAIN mirror_updates :
       /\ \E m \in Published(mirror_updates[id]) :
            m.is_remedial_update /\ m.patch.cull
       /\ \E p \in ParticipantIds : incremental_mirror[id][p].itin # << >>
       /\ \E p \in Registered :
            \E r \in Range(database.entries[p].itin) :
              r.map \notin registered_queries[id].query

\* ------------------------------------------------------------------------
\* Properties of the conflict detector
\* ------------------------------------------------------------------------

\* The routes of participant p as the oracle sees them.
EffectiveRoutes(p) ==
  {[map |-> r.map, traj |-> r.traj + database.entries[p].delay] :
     r \in Range(database.entries[p].itin)}

Responsive(p) == ~database.descriptions[p].unresponsive

\* Two responsive participants hold routes on one map that the oracle
\* reports as conflicting.
Conflicting(p, q) ==
  /\ p \in Registered /\ q \in Registered /\ p # q
  /\ Responsive(p) /\ Responsive(q)
  /\ \E r \in EffectiveRoutes(p), t \in EffectiveRoutes(q) :
       r.map = t.map /\ Between(r.traj, t.traj)

\* A ConflictNotice that covers p and q has been published.
Noticed(p, q) ==
  \E i \in 1 .. Len(conflict_notices) :
    {p, q} \subseteq conflict_notices[i].participants

\* The pairs of the ids the registry hands out.
Pairs ==
  {pq \in (0 .. MaxParticipants - 1) \X (0 .. MaxParticipants - 1) :
     pq[1] < pq[2]}

\* C2: whenever two responsive participants hold conflicting routes on one
\* map, a ConflictNotice whose participants include both is eventually
\* published, the conflict-check thread being scheduled fairly.
Cex_C2 ==
  \A pq \in Pairs : Conflicting(pq[1], pq[2]) ~> Noticed(pq[1], pq[2])

\* Three responsive participants hold the same route, one negotiation covers
\* them and its ConflictNotice has been published.
Wit_C2 ==
  /\ lastOp.op = "notice"
  /\ \A pq \in Pairs : Conflicting(pq[1], pq[2]) /\ Noticed(pq[1], pq[2])
  /\ DOMAIN active_conflicts.negotiations = {0}

\* The conflict sets a pass of the detector has to emit: one for every
\* participant p the viewer knows and every view change c of another
\* participant, unless both are unresponsive, when a route of p lies on the
\* map of c and the oracle reports a conflict.
ExpectedConflicts(view_changes, viewer) ==
  {{pc[1], pc[2].participant} :
     pc \in {x \in (DOMAIN viewer.participants) \X view_changes :
               /\ x[1] # x[2].participant
               /\ ~(viewer.participants[x[1]].unresponsive /\ x[2].unresponsive)
               /\ \E r \in Range(viewer.mirror[x[1]].itin) :
                    /\ r.map = x[2].map
                    /\ Between(x[2].traj, r.traj + viewer.mirror[x[1]].delay)}}

C6_Pass ==
  lastOp'.op = "conflict_check" =>
    LET emitted == SeqSet(conflict_check'.conflicts)
        view_changes ==
          ViewChanges(database, conflict_check.last_checked_version)
    IN /\ emitted = ExpectedConflicts(view_changes, conflict_check')
       /\ \A c \in emitted :
            /\ Cardinality(c) = 2
            /\ \E p \in c : ~conflict_check'.participants[p].unresponsive
            /\ \E m \in Maps :
                 \A p \in c : \E r \in Range(database.entries[p].itin) : r.map = m

C6_Notices ==
  \A i \in 1 .. Len(conflict_notices) :
    \E p \in conflict_notices[i].participants : Responsive(p)

\* C6: a pass of the detector emits the pair (p, c.participant) exactly when
\* p is not the participant of the view change c, the two are not both
\* unresponsive, and a route of p lies on the map of c and conflicts with
\* it; no pair holds one participant twice, two unresponsive participants or
\* participants without routes on a common map, and no ConflictNotice names
\* unresponsive participants only.
Thm_C6 == [](C6_Notices) /\ [][C6_Pass]_vars

\* A pass has found a conflict with an unresponsive participant while two
\* unresponsive participants or routes on two maps were in view.
Wit_C6 ==
  /\ lastOp.op = "conflict_check"
  /\ lastOp.class = "found"
  /\ \E c \in SeqSet(conflict_check.conflicts) :
       \E p \in c : conflict_check.participants[p].unresponsive
  /\ \E p \in Registered :
       \E r \in Range(database.entries[p].itin) : r.map = "mapB"
\* ------------------------------------------------------------------------
\* Conclusions of a negotiation
\* ------------------------------------------------------------------------

NegotiationOps == {"proposal", "rejection", "forfeit", "refusal"}

\* A conclusion for negotiation n has been published.
Concluded(n) ==
  \E i \in 1 .. Len(conflict_conclusions) :
    conflict_conclusions[i].conflict_version = n

C1_Once ==
  \A i, j \in 1 .. Len(conflict_conclusions) :
    conflict_conclusions[i].conflict_version
        = conflict_conclusions[j].conflict_version
      => i = j

C1_Closed ==
  (lastOp'.op \in NegotiationOps /\ Concluded(lastOp'.msg.conflict_version))
    => /\ conflict_conclusions' = conflict_conclusions
       /\ conflict_notices' = conflict_notices
       /\ active_conflicts' = active_conflicts

\* C1: no two published conclusions name the same conflict_version, and a
\* proposal, rejection, forfeit or refusal that names a conflict_version
\* whose conclusion has been published publishes nothing and leaves the
\* conflict record as it is.
Thm_C1 == [](C1_Once) /\ [][C1_Closed]_vars

\* A proposal arrived for negotiation 0 after its conclusion with
\* resolved = true had been published, and was dismissed.
Wit_C1 ==
  /\ lastOp.op = "proposal"
  /\ lastOp.class = "no_negotiation"
  /\ lastOp.msg.conflict_version = 0
  /\ Len(conflict_conclusions) = 1
  /\ conflict_conclusions[1].conflict_version = 0
  /\ conflict_conclusions[1].resolved

\* The path of the tables of a conclusion's table sequence.
PathOf(table) == [i \in 1 .. Len(table) |-> table[i].participant]

\* A step of receive_proposal that submitted the proposal to its table; N is
\* the negotiation once the proposal is submitted and the cache replayed.
C7_Proposal ==
  (lastOp'.op = "proposal"
     /\ lastOp'.class \in {"resolved", "forfeited", "submitted"})
    => LET msg == lastOp'.msg
           n == msg.conflict_version
           search == FindFor(Room(n).negotiation, msg.for_participant,
                             msg.to_accommodate)
           N == Submitted(Room(n), search.path, msg).negotiation
       IN IF Ready(N)
            THEN /\ lastOp'.class = "resolved"
                 /\ Len(conflict_conclusions') = Len(conflict_conclusions) + 1
                 /\ SubSeq(conflict_conclusions', 1, Len(conflict_conclusions))
                      = conflict_conclusions
                 /\ LET c == Last(conflict_conclusions') IN
                    /\ c.resolved
                    /\ c.conflict_version = n
                    /\ PathOf(c.table) \in ReadyLeaves(N)
                    /\ c.table = TableSequence(N, PathOf(c.table))
                    /\ \A s \in ReadyLeaves(N) :
                         BranchFinish(N, PathOf(c.table)) <= BranchFinish(N, s)
                 /\ n \notin DOMAIN active_conflicts'.negotiations
                 /\ \A p \in N.participants :
                      /\ p \in DOMAIN active_conflicts'.waiting
                      /\ active_conflicts'.waiting[p].negotiation_version = n
                      /\ p \notin DOMAIN active_conflicts'.version
            ELSE /\ lastOp'.class # "resolved"
                 /\ \A i \in 1 .. Len(conflict_conclusions') :
                      i > Len(conflict_conclusions)
                        => ~conflict_conclusions'[i].resolved

\* C7: when a proposal is submitted to a known, current table of a live
\* negotiation and the negotiation is then ready, exactly one conclusion is
\* appended to the published ones, with resolved = true, the proposal's
\* conflict_version and the table sequence of a ready branch whose finish
\* time no other ready branch beats; in the same step the negotiation has
\* left the live set and each of its participants is awaited.  A proposal
\* that leaves the negotiation not ready publishes no resolved conclusion.
Thm_C7 == [][C7_Proposal]_vars

\* Two branches were ready at once and the conclusion names the one that
\* finishes first: participant 2 accommodating 0, then 1 accommodating both.
Wit_C7 ==
  /\ lastOp.op = "proposal"
  /\ lastOp.class = "resolved"
  /\ lastOp.msg.to_accommodate = << >>
  /\ Len(conflict_conclusions) = 1
  /\ PathOf(conflict_conclusions[1].table) = << 0, 2, 1 >>
  /\ 0 \notin DOMAIN active_conflicts.negotiations
  /\ DOMAIN active_conflicts.waiting = {0, 1, 2}

C8_Refusal ==
  lastOp'.op = "refusal"
    => LET n == lastOp'.msg.conflict_version IN
       IF Live(n)
         THEN /\ n \notin DOMAIN active_conflicts'.negotiations
              /\ conflict_conclusions' =
                   Append(conflict_conclusions,
                          [conflict_version |-> n, resolved |-> FALSE,
                           table |-> << >>])
              /\ \A p \in Room(n).negotiation.participants :
                   p \notin DOMAIN active_conflicts'.version
         ELSE /\ conflict_conclusions' = conflict_conclusions
              /\ conflict_notices' = conflict_notices
              /\ active_conflicts' = active_conflicts

\* C8: a refusal that names a live negotiation removes it from the live set
\* and appends exactly one conclusion with resolved = false and that
\* conflict_version to the published ones; a refusal that names no live
\* negotiation publishes nothing and leaves the conflict record as it is.
Thm_C8 == [][C8_Refusal]_vars

\* Negotiation 0 was refused after a proposal had been submitted to it.
Wit_C8 ==
  /\ lastOp.op = "refusal"
  /\ lastOp.class = "refused"
  /\ lastOp.msg.conflict_version = 0
  /\ conflict_conclusions = << Unresolved(0) >>
  /\ active_conflicts.negotiations = << >>
  /\ active_conflicts.waiting = << >>

\* ------------------------------------------------------------------------
\* Acknowledgement of a conclusion
\* ------------------------------------------------------------------------

\* The acknowledgment entries of the ConflictAck a step handled.
AckEntries(op) ==
  IF op.op = "ack"
    THEN {[conflict_version |-> op.msg.conflict_version,
           entry |-> op.msg.acknowledgments[i]] :
            i \in 1 .. Len(op.msg.acknowledgments)}
    ELSE {}

\* Participant p is awaited before the step and not after it: the step
\* handled an acknowledgment of p's negotiation that is not updating, or it
\* handled an edit and a version p has handed to the database is at or past
\* the version p announced.
C9_Discharge ==
  \A p \in DOMAIN active_conflicts.waiting :
    LET w == active_conflicts.waiting[p] IN
    IF p \in DOMAIN active_conflicts'.waiting
      THEN active_conflicts'.waiting[p].negotiation_version
             = w.negotiation_version
      ELSE \/ \E a \in AckEntries(lastOp') :
                /\ a.conflict_version = w.negotiation_version
                /\ a.entry.participant = p
                /\ ~a.entry.updating
           \/ /\ lastOp'.op \in EditKinds
              /\ w.itinerary_update_version # None
              /\ \E v \in applied_versions'[p] :
                   ModLessEq(w.itinerary_update_version[1], v)

\* C9: a participant of a concluded negotiation stays awaited until it
\* acknowledges with updating = false, or, having announced itinerary
\* version V with updating = true, until an edit handler runs when an edit
\* of that participant at a version >= V has been applied.
Thm_C9 == [][C9_Discharge]_vars

\* Participant 0 announced version 2 and its edit at version 2 ended the
\* wait; participant 1 announced version 3, its edit at version 2 did not,
\* and participant 2 has not answered: the negotiation is still awaited.
Wit_C9 ==
  /\ lastOp.op \in EditKinds
  /\ conflict_conclusions = << Unresolved(0) >>
  /\ DOMAIN active_conflicts.waiting = {1, 2}
  /\ active_conflicts.waiting[1].itinerary_update_version = Some(3)
  /\ active_conflicts.waiting[2].itinerary_update_version = None
  /\ applied_versions[0] = {0, 1, 2}
  /\ applied_versions[1] = {0, 1, 2}

\* ------------------------------------------------------------------------
\* Remediation requests and the update tick
\* ------------------------------------------------------------------------

\* The requests for which the messages msgs hold a remedial update.
Served(msgs) ==
  {r \in {None} \cup {Some(v) : v \in Versions} :
     \E i \in 1 .. Len(msgs) :
       /\ msgs[i].is_remedial_update
       /\ msgs[i].patch.cull = (r = None)}

C11_Served ==
  \A id \in DOMAIN registered_queries :
    \A r \in registered_queries[id].remediation_requests :
      r \notin registered_queries'[id].remediation_requests
        => /\ lastOp'.op = "update_mirrors"
           /\ mirror_tick.id = id
           /\ r \in mirror_tick.served
           /\ r \in Served(mirror_updates'[id])

C12_Registry ==
  /\ \A k1, k2 \in DOMAIN registry : registry[k1] = registry[k2] => k1 = k2
  /\ {registry[k] : k \in DOMAIN registry} = DOMAIN database.entries

C12_Same ==
  /\ \A k \in DOMAIN registry :
       k \in DOMAIN registry' /\ registry'[k] = registry[k]
  /\ (lastOp'.op = "register_participant" /\ lastOp'.class # "failed")
       => /\ lastOp'.response.error = ""
          /\ lastOp'.response.participant_id = registry'[lastOp'.key]
          /\ lastOp'.key \in DOMAIN registry
               => DOMAIN database'.entries = DOMAIN database.entries

C13_Erased ==
  (/\ lastOp'.op = "unregister_participant"
   /\ lastOp'.response.confirmation
   /\ lastOp'.response.error = "")
    => /\ lastOp'.id \notin DOMAIN database'.entries
       /\ lastOp'.id \notin participants_info'.participants

C13_Only ==
  ~(DOMAIN database.entries \subseteq DOMAIN database'.entries)
    => lastOp'.op = "unregister_participant"

\* C13: once an unregistration has answered confirmation = true with an
\* empty error, the participant is in neither the database nor the
\* ParticipantsInfo published by that call; and only an unregistration
\* removes a participant from the database.
Cex_C13 == [][C13_Erased /\ C13_Only]_vars

\* Participant 0, whose itinerary is set, was unregistered with
\* confirmation = true, and the broadcast that followed lists it.
Wit_C13 ==
  /\ lastOp.op = "unregister_participant"
  /\ lastOp.class = "confirmed"
  /\ lastOp.id = 0
  /\ database.entries[0].itin # << >>
  /\ 0 \in participants_info.participants

C14_Unregister ==
  lastOp'.op = "unregister_participant"
    => IF lastOp'.id \in DOMAIN database.entries
         THEN /\ lastOp'.response.confirmation
              /\ lastOp'.response.error = ""
         ELSE /\ ~lastOp'.response.confirmation
              /\ lastOp'.response.error # ""
              /\ database' = database
              /\ current_participants_version' = current_participants_version
              /\ participants_info' = participants_info

C14_Register ==
  lastOp'.op = "register_participant"
    => /\ lastOp'.response.error # "" <=> lastOp'.class = "failed"
       /\ lastOp'.response.error # ""
            => /\ participants_info' = participants_info
               /\ current_participants_version' = current_participants_version
               /\ database' = database

\* C14: an unregistration of an id that is not registered answers
\* confirmation = false with an error, changes neither the database nor the
\* participants version and publishes no ParticipantsInfo, and one of a
\* registered id answers with an empty error; a registration answers with an
\* error exactly when its registry operation failed, and then publishes
\* nothing.
Thm_C14 == [][C14_Unregister /\ C14_Register]_vars

\* An unregistration of the unknown id 2 was refused while two participants
\* were registered and one broadcast per registration had been published.
Wit_C14 ==
  /\ lastOp.op = "unregister_participant"
  /\ lastOp.class = "unknown"
  /\ lastOp.id = 2
  /\ lastOp.response.error # ""
  /\ DOMAIN database.entries = {0, 1}
  /\ participants_info = [published |-> 2, participants |-> {0, 1}]

\* ------------------------------------------------------------------------
\* The result of RequestChanges
\* ------------------------------------------------------------------------

C15_Result ==
  lastOp'.op = "request_changes"
    => LET id == lastOp'.query_id IN
       IF id \in DOMAIN registered_queries
         THEN /\ lastOp'.class = "REQUEST_ACCEPTED"
              /\ DOMAIN registered_queries' = DOMAIN registered_queries
              /\ \A q \in DOMAIN registered_queries :
                   /\ registered_queries'[q].last_sent_version
                        = registered_queries[q].last_sent_version
                   /\ q # id => registered_queries'[q] = registered_queries[q]
         ELSE /\ lastOp'.class = "UNKNOWN_QUERY_ID"
              /\ registered_queries' = registered_queries

\* C15: request_changes answers UNKNOWN_QUERY_ID exactly when the query id is
\* not registered, and then changes no query; for a registered id it answers
\* REQUEST_ACCEPTED and changes at most that query's remediation set.
Thm_C15 == [][C15_Result]_vars

\* A request for the changes since version 0 was accepted for query 1, to
\* which nothing had been sent yet, and no remediation request was recorded.
Wit_C15 ==
  /\ lastOp.op = "request_changes"
  /\ lastOp.class = "REQUEST_ACCEPTED"
  /\ lastOp.query_id = 1
  /\ ~lastOp.full_update
  /\ registered_queries[1].last_sent_version = None
  /\ registered_queries[1].remediation_requests = {}
  /\ database.version > 0

\* ------------------------------------------------------------------------
\* The Writer: retransmission and publication
\* ------------------------------------------------------------------------

\* The versions a participant of the Writer has allocated.
Allocated(p) ==
  IF p \in DOMAIN writer_participants
    THEN {writer_participants[p].log[i].version :
            i \in 1 .. Len(writer_participants[p].log)}
    ELSE {}

C16_Notice ==
  lastOp'.op = "check_inconsistencies"
    => LET msg == lastOp'.msg
           live == /\ msg.participant \in DOMAIN stub_map
                   /\ stub_map[msg.participant]
       IN /\ IF msg.ranges # << >> /\ live
               THEN /\ Len(retransmit_calls') = 1
                    /\ retransmit_calls'[1].participant = msg.participant
                    /\ retransmit_calls'[1].last_known_version
                         = msg.last_known_version
                    /\ Len(retransmit_calls'[1].ranges) = Len(msg.ranges)
                    /\ \A i \in 1 .. Len(msg.ranges) :
                         /\ retransmit_calls'[1].ranges[i].lower
                              = msg.ranges[i].lower
                         /\ retransmit_calls'[1].ranges[i].upper
                              = msg.ranges[i].upper
               ELSE /\ retransmit_calls' = << >>
                    /\ itinerary_pub' = << >>
          /\ writer_participants' = writer_participants
          /\ \A i \in 1 .. Len(itinerary_pub') :
               /\ itinerary_pub'[i].participant = msg.participant
               /\ itinerary_pub'[i].itinerary_version
                    \in Allocated(msg.participant)

\* C16: a notice with ranges for a participant whose requester is alive
\* makes the Writer call retransmit once, with the ranges of the notice in
\* their order and its last_known_version; any other notice makes it call
\* and publish nothing; and handling a notice allocates no itinerary
\* version: whatever is published again carries a version the participant
\* had allocated.
Thm_C16 == [][C16_Notice]_vars

\* A notice with two ranges, the later version first, for participant 0,
\* which had made two edits: both were published again.
Wit_C16 ==
  /\ lastOp.op = "check_inconsistencies"
  /\ lastOp.class = "retransmit"
  /\ lastOp.msg.participant = 0
  /\ Len(retransmit_calls) = 1
  /\ retransmit_calls[1].ranges = << Range_(2, 2), Range_(1, 1) >>
  /\ Len(itinerary_pub) = 2
  /\ FALSE \in {stub_map[p] : p \in DOMAIN stub_map}

\* The topic of each kind of edit.
TopicOf(kind) ==
  IF kind = "set" THEN "ItinerarySet"
  ELSE IF kind = "extend" THEN "ItineraryExtend"
  ELSE IF kind = "delay" THEN "ItineraryDelay"
  ELSE IF kind = "erase" THEN "ItineraryErase"
  ELSE "ItineraryClear"

\* The routes of a message are those of the caller, in their order.
SameRoutes(sent, routes) ==
  /\ Len(sent) = Len(routes)
  /\ \A i \in 1 .. Len(routes) :
       sent[i].map = routes[i].map /\ sent[i].trajectory = routes[i].traj

C18_Edit ==
  lastOp'.op = "writer_edit"
    => LET call == lastOp'.call IN
       /\ Len(itinerary_pub') = 1
       /\ LET m == itinerary_pub'[1] IN
          /\ m.topic = TopicOf(call.kind)
          /\ m.participant = lastOp'.participant
          /\ m.itinerary_version = call.version
          /\ call.kind = "set" => SameRoutes(m.itinerary, call.payload)
          /\ call.kind = "extend" => SameRoutes(m.routes, call.payload)
          /\ call.kind = "delay" => m.delay = call.payload
          /\ call.kind = "erase" => m.routes = call.payload
          /\ call.kind = "clear"
               => DOMAIN m = {"topic", "participant", "itinerary_version"}

\* C18: an edit call of the Writer publishes one message, on the topic of
\* its kind, with the participant, the payload and the itinerary version of
\* the caller; an erase of the whole itinerary goes out as ItineraryClear.
Thm_C18 == [][C18_Edit]_vars

\* Participant 1 cleared its itinerary as its second edit.
Wit_C18 ==
  /\ lastOp.op = "writer_edit"
  /\ lastOp.class = "clear"
  /\ lastOp.participant = 1
  /\ itinerary_pub = << [topic |-> "ItineraryClear", participant |-> 1,
                         itinerary_version |-> 2] >>

\* ------------------------------------------------------------------------
\* C17
\* ------------------------------------------------------------------------
CallEnds == register_call.pc = "waiting" /\ register_call'.pc # "waiting"

\* The call returns only on a response without error text, and returns the
\* three fields of that response.
C17_Return ==
  (CallEnds /\ register_call'.pc = "returned") =>
    /\ register_call.future # None
    /\ register_call.future[1].error = ""
    /\ register_call'.result # None
    /\ register_call'.result[1].participant_id =
         register_call.future[1].participant_id
    /\ register_call'.result[1].last_itinerary_version =
         register_call.future[1].last_itinerary_version
    /\ register_call'.result[1].last_route_id =
         register_call.future[1].last_route_id

\* The call throws exactly when the round that ends it finds no response and
\* the context shut down, or finds a response with an error text.
C17_Throw ==
  CallEnds =>
    /\ register_call'.pc \in {"returned", "thrown_shutdown", "thrown_error"}
    /\ register_call'.pc = "thrown_shutdown" <=>
         (register_call.future = None /\ ~register_call.ok)
    /\ register_call'.pc = "thrown_error" <=>
         (register_call.future # None /\ register_call.future[1].error # "")

\* A call whose response has arrived, or whose context is shut down, ends.
C17_Terminates ==
  (register_call.pc = "waiting"
     /\ (register_call.future # None \/ ~register_call.ok))
    ~> (register_call.pc # "waiting")

\* C17 (as amended): register_participant returns a Registration copied
\* from the response only after a response with an empty error has arrived;
\* it throws if a round of its loop finds no response while the context is
\* shut down, or if the response has an error text; a response that arrives
\* after the shutdown but before the next round is still returned; and a
\* blocked call ends once the response arrives or the context is shut down.
Thm_C17 == [][C17_Return /\ C17_Throw]_vars /\ C17_Terminates

\* C17 (as stated): whenever the shutdown is signalled before the response
\* arrives, the call ends with an exception.
Cex_C17 ==
  [][(CallEnds /\ lastOp.op = "register_call" /\ lastOp.class = "response"
        /\ ~register_call.ok)
       => register_call'.pc \in {"thrown_shutdown", "thrown_error"}]_vars

\* A call has returned the registration of a response that arrived after the
\* context was shut down.
Wit_C17 ==
  /\ register_call.pc = "returned"
  /\ ~register_call.ok
  /\ register_call.result =
       Some([participant_id |-> 1,
             last_itinerary_version |-> MaxItineraryVersion,
             last_route_id |-> MaxRouteId])

\* ------------------------------------------------------------------------
\* C19
\* ------------------------------------------------------------------------

\* The detector has checked no version the database has not reached, and
\* every change of the log carries a version the database has reached.
C19_Applied ==
  /\ conflict_check.last_checked_version <= database.version
  /\ \A i \in 1 .. Len(database.log) :
       database.log[i].version <= database.version

\* last_checked_version never decreases, and a pass sets it to the version
\* the database had under the lock.
C19_Advance ==
  /\ conflict_check'.last_checked_version >=
       conflict_check.last_checked_version
  /\ lastOp'.op = "conflict_check" =>
       conflict_check'.last_checked_version = database.version

\* Every conflict set of a pass holds a participant with a change that the
\* database applied after the last pass and before this one.
C19_Derived ==
  lastOp'.op = "conflict_check" =>
    \A c \in SeqSet(conflict_check'.conflicts) :
      \E q \in c, i \in 1 .. Len(database.log) :
        /\ database.log[i].participant = q
        /\ conflict_check.last_checked_version < database.log[i].version
        /\ database.log[i].version <= database.version

\* C19: the detector's last_checked_version never exceeds the latest
\* version of the database and never decreases, and the conflicts of a pass,
\* from which the ConflictNotices are made, come from changes at versions
\* the database had applied when the pass read them.
Thm_C19 == [](C19_Applied) /\ [][C19_Advance /\ C19_Derived]_vars

\* A ConflictNotice has been published for a conflict found at an earlier
\* version, and the database has applied another change since.
Wit_C19 ==
  /\ Len(conflict_notices) > 0
  /\ conflict_check.last_checked_version >= 2
  /\ conflict_check.last_checked_version < database.version

\* ------------------------------------------------------------------------
\* C20
\* ------------------------------------------------------------------------

\* An edit that names an unknown participant changes nothing the node holds
\* or publishes: the database, the inconsistency notices and the record of
\* the negotiations and their obligations.
C20_Unchanged ==
  lastOp'.class = "UnknownParticipant" =>
    /\ database' = database
    /\ inconsistency_pub' = inconsistency_pub
    /\ active_conflicts' = active_conflicts
    /\ applied_versions' = applied_versions

\* After such an edit the node still runs its callbacks.
C20_Able == lastOp'.class = "UnknownParticipant" => spinning'

\* C20: an itinerary edit that names a participant that is not registered
\* fails with UnknownParticipant and leaves the database unchanged; the node
\* publishes no inconsistency notice and checks no negotiation obligation
\* for it, and it remains able to process later edits.
Cex_C20 == [][C20_Unchanged /\ C20_Able]_vars

\* An edit for an unknown participant has ended the callbacks of a node
\* whose negotiation was waiting for an itinerary update.
Wit_C20 ==
  /\ lastOp.class = "UnknownParticipant"
  /\ ~spinning
  /\ \E q \in DOMAIN active_conflicts.waiting :
       active_conflicts.waiting[q].itinerary_update_version # None

\* ------------------------------------------------------------------------
\* C21, C22
\* ------------------------------------------------------------------------

\* The ids registered for a query equal to query.
IdsOf(queries, query) == {id \in DOMAIN queries : queries[id].query = query}

\* A call for a query that is registered returns the id of that query, adds
\* no entry and no publisher and sets the entry's last registration time to
\* the time of the call.
C21_Known ==
  (lastOp'.op = "register_query"
     /\ IdsOf(registered_queries, lastOp'.query) # {}) =>
    /\ lastOp'.response.query_id \in IdsOf(registered_queries, lastOp'.query)
    /\ lastOp'.response.error = ""
    /\ DOMAIN registered_queries' = DOMAIN registered_queries
    /\ DOMAIN subscription_count' = DOMAIN subscription_count
    /\ last_query_id' = last_query_id
    /\ registered_queries'[lastOp'.response.query_id].last_registration_time
         = now
    /\ \A id \in DOMAIN registered_queries :
         id # lastOp'.response.query_id =>
           registered_queries'[id] = registered_queries[id]

\* No two registered ids map to equal queries.
C21_Distinct ==
  \A id \in DOMAIN registered_queries :
    IdsOf(registered_queries, registered_queries[id].query) = {id}

\* C21: register_query deduplicates: for a query equal to a registered one
\* it returns that query's id, creates no entry and no publisher and
\* refreshes the entry's last registration time; in a registry filled by
\* register_query alone no two ids map to equal queries.
Thm_C21 == [](C21_Distinct) /\ [][C21_Known]_vars

\* A query was registered again at a later time while two other queries
\* were registered, and kept its id.
Wit_C21 ==
  /\ lastOp.op = "register_query"
  /\ lastOp.class = "known"
  /\ Cardinality(DOMAIN registered_queries) = 3
  /\ registered_queries[lastOp.response.query_id].last_registration_time = 2
  /\ \E id \in DOMAIN registered_queries :
       registered_queries[id].last_registration_time = 0

\* The queries a step removes.
Removed == DOMAIN registered_queries \ DOMAIN registered_queries'

\* A query is removed only by the cleanup, only without subscribers and only
\* when more than the grace period has passed since its last registration;
\* the ScheduleQueries message that follows lists the queries left.
C22_Removal ==
  Removed # {} =>
    /\ lastOp'.op = "cleanup_queries"
    /\ lastOp'.broadcast
    /\ DOMAIN queries_info'.queries = DOMAIN registered_queries'
    /\ \A id \in Removed :
         /\ subscription_count[id] = 0
         /\ now - registered_queries[id].last_registration_time > GracePeriod

\* A cleanup that finds nothing to remove broadcasts nothing.
C22_Quiet ==
  (lastOp'.op = "cleanup_queries" /\ Removed = {}) =>
    (~lastOp'.broadcast /\ queries_info' = queries_info)

\* C22: the cleanup removes a query only when it has no subscriber and more
\* than the grace period has passed since its last registration time, which
\* register_query sets whenever it returns the id; a removal is followed by
\* a ScheduleQueries broadcast that omits the query.
Thm_C22 == [][C22_Removal /\ C22_Quiet]_vars

\* The cleanup has removed a query while it kept one with a subscriber that
\* was registered as long ago, and one without subscriber that was
\* registered again within the grace period.
Wit_C22 ==
  /\ lastOp.op = "cleanup_queries"
  /\ lastOp.class = "erased"
  /\ \E id \in DOMAIN registered_queries :
       /\ subscription_count[id] = 1
       /\ now - registered_queries[id].last_registration_time > GracePeriod
  /\ \E id \in DOMAIN registered_queries :
       /\ subscription_count[id] = 0
       /\ now - registered_queries[id].last_registration_time <= GracePeriod

\* ------------------------------------------------------------------------
\* C23, C24
\* ------------------------------------------------------------------------

\* The conclusions a step publishes.
NewConclusions ==
  {conflict_conclusions'[i] :
     i \in (Len(conflict_conclusions) + 1) .. Len(conflict_conclusions')}

\* No live negotiation is ready or complete.
C23_Concluded ==
  \A n \in DOMAIN active_conflicts.negotiations :
    /\ ~Ready(active_conflicts.negotiations[n].negotiation)
    /\ ~Complete(active_conflicts.negotiations[n].negotiation)

\* A handler that ends a negotiation publishes its conclusion in the same
\* step, and only the handlers of negotiation messages end one.
C23_Published ==
  \A n \in DOMAIN active_conflicts.negotiations :
    n \notin DOMAIN active_conflicts'.negotiations =>
      /\ lastOp'.op \in NegotiationOps
      /\ lastOp'.msg.conflict_version = n
      /\ \E c \in NewConclusions : c.conflict_version = n

\* C23: when the handling of a proposal, rejection or forfeit, cached
\* messages replayed by check_cache included, leaves a live negotiation
\* ready or complete, the handler publishes a ConflictConclusion before it
\* returns: after any handler no live negotiation is ready or complete.
Thm_C23 == [](C23_Concluded) /\ [][C23_Published]_vars

\* The handler of a root proposal has run, found the negotiation ready with
\* a branch of three tables and concluded it.
Wit_C23 ==
  /\ lastOp.op = "proposal"
  /\ lastOp.class = "resolved"
  /\ lastOp.msg.to_accommodate = << >>
  /\ conflict_conclusions # << >>
  /\ Len(conflict_conclusions[Len(conflict_conclusions)].table) = 3

\* The lookup of the table a negotiation message names.
Lookup(N, op, msg) ==
  IF op = "proposal"
    THEN FindFor(N, msg.for_participant, msg.to_accommodate)
    ELSE Find(N, msg.table)

\* The room a handler decides on: unchanged for a deprecated message, with
\* the message cached when its table is absent, and otherwise with the
\* message applied and the cache replayed.
Delivered(room, op, msg) ==
  LET search == Lookup(room.negotiation, op, msg) IN
  IF search.status = "deprecated" THEN room
  ELSE IF search.status = "absent"
    THEN IF op = "proposal"
           THEN [room EXCEPT !.cached_proposals = Append(@, msg)]
         ELSE IF op = "rejection"
           THEN [room EXCEPT !.cached_rejections = Append(@, msg)]
         ELSE [room EXCEPT !.cached_forfeits = Append(@, msg)]
  ELSE IF op = "proposal" THEN Submitted(room, search.path, msg)
  ELSE IF op = "rejection"
    THEN CheckCache([room EXCEPT
           !.negotiation = Reject(@, search.path, Last(msg.table).version)])
  ELSE CheckCache([room EXCEPT
         !.negotiation = Forfeit(@, search.path, Last(msg.table).version)])

\* The negotiation a proposal or forfeit handler decides on.
Decided(op, msg) ==
  Delivered(active_conflicts.negotiations[msg.conflict_version], op,
            msg).negotiation

\* A proposal or forfeit handler that concludes says resolved = false only
\* for a complete negotiation without ready branch, and resolved = true
\* whenever there is a ready branch.
C24_Resolved ==
  (lastOp'.op \in {"proposal", "forfeit"}
     /\ lastOp'.class \in {"resolved", "forfeited"}) =>
    LET N == Decided(lastOp'.op, lastOp'.msg) IN
    \A c \in NewConclusions :
      /\ ~c.resolved => (Complete(N) /\ ~Ready(N))
      /\ Ready(N) => c.resolved

\* C24: apart from refusals, a ConflictConclusion with resolved = false is
\* published only for a negotiation that is complete and has no ready
\* branch; a negotiation that has a ready branch when it is concluded is
\* concluded with resolved = true, by the proposal handler and by the
\* forfeit handler alike.
Thm_C24 == [][C24_Resolved]_vars

\* The forfeit of the last root table has concluded the negotiation with
\* resolved = false.
Wit_C24 ==
  /\ lastOp.op = "forfeit"
  /\ lastOp.class = "forfeited"
  /\ conflict_conclusions # << >>
  /\ ~conflict_conclusions[Len(conflict_conclusions)].resolved

\* ------------------------------------------------------------------------
\* C25
\* ------------------------------------------------------------------------

\* The three caches of a room.
CacheOf(room, op) ==
  IF op = "proposal" THEN room.cached_proposals
  ELSE IF op = "rejection" THEN room.cached_rejections
  ELSE room.cached_forfeits

CacheOps == {"proposal", "rejection", "forfeit"}

\* A handler that found the table absent appended the message to the cache of
\* its kind and changed nothing else.
C25_Cached ==
  (lastOp'.op \in CacheOps /\ lastOp'.class = "cached") =>
    LET n == lastOp'.msg.conflict_version
        before == active_conflicts.negotiations[n]
        after == active_conflicts'.negotiations[n]
        m == Last(CacheOf(after, lastOp'.op))
    IN
    /\ Live(n)
    /\ Lookup(before.negotiation, lastOp'.op, m).status = "absent"
    /\ after = Delivered(before, lastOp'.op, m)
    /\ CacheOf(after, lastOp'.op) = Append(CacheOf(before, lastOp'.op), m)
    /\ \A op \in CacheOps \ {lastOp'.op} : CacheOf(after, op) = CacheOf(before, op)
    /\ after.negotiation = before.negotiation
    /\ active_conflicts' = WithRoom(active_conflicts, n, after)
    /\ UNCHANGED << conflict_conclusions, conflict_notices >>

\* No cached message waits for a table that exists: each one still names an
\* absent table.
C25_Replayed ==
  \A n \in DOMAIN active_conflicts.negotiations :
    \A op \in CacheOps :
      \A i \in 1 .. Len(CacheOf(Room(n), op)) :
        Lookup(Room(n).negotiation, op, CacheOf(Room(n), op)[i]).status = "absent"

\* What a handler does with the room it decided on.
Concluding(room, op) ==
  IF op = "proposal" /\ Ready(room.negotiation) THEN "resolved"
  ELSE IF op \in {"proposal", "forfeit"} /\ Complete(room.negotiation)
    THEN "forfeited"
  ELSE "live"

\* The negotiation after the handler of x and then, unless x concluded the
\* negotiation, the handler of y, and how it ended.
After(room, x, y) ==
  LET first == Delivered(room, x.op, x.msg)
      second == Delivered(first, y.op, y.msg)
      last == IF Concluding(first, x.op) # "live" THEN first ELSE second
      end == IF Concluding(first, x.op) # "live" THEN Concluding(first, x.op)
             ELSE Concluding(second, y.op)
  IN [end |-> end, negotiation |-> last.negotiation]

\* The messages of negotiation n that may arrive.
Arriving(n) ==
  {[op |-> "proposal", msg |-> m] :
     m \in {k \in CacheInputs.proposals : k.conflict_version = n}}
  \cup {[op |-> "rejection", msg |-> m] :
     m \in {k \in CacheInputs.rejections : k.conflict_version = n}}
  \cup {[op |-> "forfeit", msg |-> m] :
     m \in {k \in CacheInputs.forfeits : k.conflict_version = n}}

\* A message whose table is absent and the message that creates the table
\* leave the same negotiation in either order of arrival.
C25_Order ==
  \A n \in DOMAIN active_conflicts.negotiations :
    \A x, y \in Arriving(n) :
      (/\ Lookup(Room(n).negotiation, x.op, x.msg).status = "absent"
       /\ Lookup(Room(n).negotiation, y.op, y.msg).status = "found") =>
        After(Room(n), x, y) = After(Room(n), y, x)

\* The same for the pairs whose in-order delivery does not conclude the
\* negotiation between the two messages.
C25_OrderLive ==
  \A n \in DOMAIN active_conflicts.negotiations :
    \A x, y \in Arriving(n) :
      (/\ Lookup(Room(n).negotiation, x.op, x.msg).status = "absent"
       /\ Lookup(Room(n).negotiation, y.op, y.msg).status = "found"
       /\ Concluding(Delivered(Room(n), y.op, y.msg), y.op) = "live") =>
        After(Room(n), x, y) = After(Room(n), y, x)

\* C25: a proposal, rejection or forfeit for a live negotiation whose table
\* is absent is appended to the cache of its kind, mutates no table and
\* publishes no conclusion; every applied submit, reject or forfeit is
\* followed by check_cache, so no cached message waits for a table that
\* exists, and messages delivered out of order reach the same negotiation
\* state as in-order delivery unless the in-order delivery concludes the
\* negotiation before the later message arrives.
Thm_C25 == [](C25_Replayed /\ C25_OrderLive) /\ [][C25_Cached]_vars

\* C25 as stated: out-of-order delivery reaches the same negotiation state
\* as in-order delivery for every pair of messages.
Cex_C25 == [](C25_Replayed /\ C25_Order) /\ [][C25_Cached]_vars

\* A forfeit has arrived before the proposal of its table, after a proposal
\* that waits in its own cache: the handler has cached it.
Wit_C25 ==
  /\ lastOp.op = "forfeit"
  /\ lastOp.class = "cached"
  /\ Live(0)
  /\ Room(0).cached_proposals # << >>
  /\ Room(0).cached_forfeits # << >>
  /\ Last(Room(0).cached_forfeits).table = << Key(0), Key(1) >>

\* ------------------------------------------------------------------------
\* C26
\* ------------------------------------------------------------------------

\* A handler that dismissed its message changed nothing.
C26_Discarded ==
  (lastOp'.op \in CacheOps /\ lastOp'.class \in {"deprecated", "no_negotiation"}) =>
    UNCHANGED << dbVars, queryVars, threadVars, negotiationVars, writerVars,
                 spinning, database_mutex, nodeVars >>

\* The message a handler cached or applied.
Handled ==
  IF lastOp'.class = "cached"
    THEN Last(CacheOf(active_conflicts'.negotiations[lastOp'.msg.conflict_version],
                      lastOp'.op))
    ELSE lastOp'.msg

\* A handler that changed the record of the negotiations or published a
\* conclusion had a message of a live negotiation whose table lookup was not
\* deprecated.
C26_Effect ==
  (/\ lastOp'.op \in CacheOps
   /\ \/ active_conflicts' # active_conflicts
      \/ conflict_conclusions' # conflict_conclusions) =>
    /\ Live(lastOp'.msg.conflict_version)
    /\ Lookup(Room(lastOp'.msg.conflict_version).negotiation, lastOp'.op,
              Handled).status # "deprecated"

\* C26: a proposal, rejection or forfeit whose table lookup is deprecated is
\* discarded with no effect at all: it is not cached, no table is mutated,
\* check_cache is not run and no conclusion is published; a message naming a
\* conflict_version without live negotiation has no effect either.
Thm_C26 == [][C26_Discarded /\ C26_Effect]_vars

\* A forfeit of a root table at its first version has arrived after the
\* root proposal of participant 0 was submitted and the other two root
\* tables were forfeited, and was discarded.
Wit_C26 ==
  /\ lastOp.op = "forfeit"
  /\ lastOp.class = "deprecated"
  /\ Live(0)
  /\ Room(0).negotiation.tables[<< 0 >>].finish # None
  /\ \A p \in 1 .. 2 : Room(0).negotiation.tables[<< p >>].forfeited

\* ------------------------------------------------------------------------
\* C27
\* ------------------------------------------------------------------------

\* The incremental updates among msgs.
Incremental(msgs) == SelectSeq(msgs, LAMBDA m : ~m.is_remedial_update)

\* When a step moves last_sent_version of a query to v, the incremental
\* update of the tick holds exactly the changes after the previous
\* last_sent_version up to v and names v as its database_version, or nothing
\* was published because there was no such change.
C27_Covered ==
  \A id \in DOMAIN registered_queries \cap DOMAIN registered_queries' :
    LET s == registered_queries[id].last_sent_version
        v == registered_queries'[id].last_sent_version
        expected == Changes(database', registered_queries[id].query, s)
        inc == Incremental(mirror_updates'[id])
    IN s # v =>
         /\ v = Some(database'.version)
         /\ IF expected.entries = << >> /\ ~expected.cull THEN inc = << >>
            ELSE /\ Len(inc) = 1
                 /\ inc[1].patch = expected
                 /\ inc[1].database_version = v[1]

Remedial(msgs) == SelectSeq(msgs, LAMBDA m : m.is_remedial_update)

\* An update tick publishes, for each query, one remedial update per pending
\* request, each with the changes since the version requested, ahead of the
\* incremental update, and leaves the remediation set empty.
C29_Served ==
  lastOp'.op = "update_mirrors" =>
    \A id \in DOMAIN registered_queries :
      LET info == registered_queries[id]
          msgs == mirror_updates'[id]
          k == Cardinality(info.remediation_requests)
      IN /\ Len(Remedial(msgs)) = k
         /\ \A i \in 1 .. Len(msgs) : msgs[i].is_remedial_update <=> i <= k
         /\ \A r \in info.remediation_requests :
              \E i \in 1 .. k :
                /\ msgs[i].patch = Changes(database, info.query, r)
                /\ msgs[i].query_id = id
                /\ msgs[i].database_version = database.version
         /\ registered_queries'[id].remediation_requests = {}

\* C29: on each update tick, for every registered query, exactly one
\* MirrorUpdate with is_remedial_update = true is published per element of
\* the remediation set (the changes since the requested version, or the full
\* patch for nullopt), even when the patch is empty, before any incremental
\* update of the tick; after the tick the remediation set is empty.
Thm_C29 == [][C29_Served]_vars

\* A tick has served the two requests of query 1, a full update and the
\* changes since a version after which nothing matches the query: it
\* published two remedial updates, one with an empty patch.
Wit_C29 ==
  /\ lastOp.op = "update_mirrors"
  /\ 1 \in DOMAIN mirror_updates
  /\ Len(mirror_updates[1]) = 2
  /\ registered_queries[1].remediation_requests = {}
  /\ \A i \in 1 .. 2 : mirror_updates[1][i].is_remedial_update
  /\ \E i \in 1 .. 2 :
       /\ mirror_updates[1][i].patch.entries = << >>
       /\ ~mirror_updates[1][i].patch.cull

\* An update tick publishes the incremental update of a query exactly when
\* last_sent_version differs from the database version and the patch is not
\* empty or carries a cull; a query that is up to date keeps its
\* last_sent_version.
C30_Incremental ==
  lastOp'.op = "update_mirrors" =>
    \A id \in DOMAIN registered_queries :
      LET info == registered_queries[id]
          inc == Incremental(mirror_updates'[id])
          patch == Changes(database, info.query, info.last_sent_version)
      IN /\ Len(inc) <= 1
         /\ Len(inc) = 1 <=>
              /\ info.last_sent_version # Some(database.version)
              /\ patch.entries # << >> \/ patch.cull
         /\ Len(inc) = 1 => inc[1].patch = patch
         /\ info.last_sent_version = Some(database.version) =>
              registered_queries'[id].last_sent_version = info.last_sent_version

\* C30: a non-remedial MirrorUpdate is published for a query on a tick if
\* and only if last_sent_version differs from the database version and the
\* patch is non-empty or carries a cull; an empty patch without cull
\* publishes nothing, and a tick on a query that is up to date publishes no
\* incremental update and leaves last_sent_version unchanged.
Thm_C30 == [][C30_Incremental]_vars

\* A tick found query 1 behind the database with nothing to send, the last
\* change being an extension on another map: it published nothing.
Wit_C30 ==
  /\ lastOp.op = "update_mirrors"
  /\ 1 \in DOMAIN mirror_updates
  /\ mirror_updates[1] = << >>
  /\ database.log # << >>
  /\ ~Relevant(Last(database.log), registered_queries[1].query)

\* ------------------------------------------------------------------------
\* C28
\* ------------------------------------------------------------------------

\* A step that edits the database is taken by the holder of database_mutex
\* or by a handler that takes and releases it within the step.
C28_Edit ==
  database' # database =>
    \/ database_mutex = Some("itinerary_set") /\ lastOp'.op = "set"
    \/ database_mutex = None /\ lastOp'.op = "register_participant"

\* A tick that reads the database holds database_mutex: nobody else does.
C28_Tick ==
  (lastOp'.op = "update_mirrors" /\ registered_queries # << >>) =>
    database_mutex = None

\* C28: the database lock is held during every database edit, every patch
\* computation and every view-change snapshot, in every thread: the edit
\* handlers, the conflict-check thread and the mirror-update tick access the
\* database only while holding it, so no patch is computed while an edit is
\* in progress.
Cex_C28 == [][C28_Edit /\ C28_Tick]_vars

\* The tick has computed and published a patch for query 1 while
\* itinerary_set held database_mutex.
Wit_C28 ==
  /\ lastOp.op = "update_mirrors"
  /\ database_mutex = Some("itinerary_set")
  /\ 1 \in DOMAIN mirror_updates
  /\ mirror_updates[1] # << >>

\* ------------------------------------------------------------------------
\* C31
\* ------------------------------------------------------------------------

\* The difference a - b of two version counters read as a signed integer of
\* the counter's width.
SignedDifference(a, b) ==
  LET d == (a - b) % Modulus IN IF d >= Half THEN d - Modulus ELSE d

\* request_changes for a registered query adds nullopt for a full update,
\* the version asked for exactly when it is modularly less than
\* last_sent_version, and nothing otherwise.
C31_Inserted ==
  (lastOp'.op = "request_changes" /\ lastOp'.class = "REQUEST_ACCEPTED") =>
    LET info == registered_queries[lastOp'.query_id]
        after == registered_queries'[lastOp'.query_id].remediation_requests
        less == /\ info.last_sent_version # None
                /\ SignedDifference(lastOp'.version, info.last_sent_version[1]) < 0
    IN after = info.remediation_requests
                 \cup (IF lastOp'.full_update THEN {None}
                       ELSE IF less THEN {Some(lastOp'.version)} ELSE {})

\* C31: for a registered query and a request with full_update = false,
\* request_changes inserts the requested version into the remediation set if
\* and only if version < last_sent_version under modular comparison (the
\* difference read as a signed integer is negative), also across the
\* wrap-around of the counter; otherwise the set is unchanged; with
\* full_update = true it inserts nullopt whatever the version.
Thm_C31 == [][C31_Inserted]_vars

\* Across the wrap-around: the last version sent is 1, and the request for
\* the changes since the largest value of the counter was recorded.
Wit_C31 ==
  /\ lastOp.op = "request_changes"
  /\ ~lastOp.full_update
  /\ lastOp.version = Modulus - 1
  /\ registered_queries[1].last_sent_version = Some(1)
  /\ Some(Modulus - 1) \in registered_queries[1].remediation_requests

\* ------------------------------------------------------------------------
\* C32
\* ------------------------------------------------------------------------

\* The first id of the sequence last + 1, last + 2, ... (modulo the range of
\* the counter) that is not in use.
FirstUnused(used, last) ==
  LET n == CHOOSE k \in 1 .. Modulus :
             /\ (last + k) % Modulus \notin used
             /\ \A j \in 1 .. (k - 1) : (last + j) % Modulus \in used
  IN (last + n) % Modulus

\* register_query for a query equal to no registered one allocates the
\* first unused id after last_query_id and adds a fresh entry under it.
C32_Allocated ==
  (/\ lastOp'.op = "register_query"
   /\ \A q \in DOMAIN registered_queries :
        registered_queries[q].query # lastOp'.query) =>
    LET id == lastOp'.response.query_id IN
    /\ id = FirstUnused(DOMAIN registered_queries, last_query_id)
    /\ id \notin DOMAIN registered_queries
    /\ DOMAIN registered_queries' = DOMAIN registered_queries \cup {id}
    /\ \A q \in DOMAIN registered_queries :
         registered_queries'[q] = registered_queries[q]
    /\ last_query_id' = id
    /\ registered_queries'[id].query = lastOp'.query
    /\ registered_queries'[id].last_sent_version = None
    /\ registered_queries'[id].remediation_requests = {}

\* C32: when register_query receives a query equal to no registered one,
\* the id it allocates is the first value of last_query_id + 1,
\* last_query_id + 2, ... (wrapping around) that is not in use: it differs
\* from every registered id, existing entries keep their ids and state,
\* last_query_id becomes the new id, and the new entry starts with
\* last_sent_version = nullopt and an empty remediation set.
Thm_C32 == [][C32_Allocated]_vars

\* The search has wrapped around and skipped an id in use: with the largest
\* id and id 0 taken, the new query got id 1.
Wit_C32 ==
  /\ lastOp.op = "register_query"
  /\ lastOp.class = "new"
  /\ lastOp.response.query_id = 1
  /\ {0, Modulus - 1} \subseteq DOMAIN registered_queries
  /\ registered_queries[0].query = {"mapA"}
  /\ registered_queries[Modulus - 1].query = {"mapB"}

\* ------------------------------------------------------------------------
\* C33
\* ------------------------------------------------------------------------

\* The notice that reports the inconsistency set participant p has in D.
CurrentNotice(D, p) ==
  Some([ranges |-> D.entries[p].ranges,
        last_known_version |-> D.entries[p].latest])

\* An edit of p publishes the inconsistency set p has after it.
C33_Always ==
  \A p \in Registered :
    (lastOp'.op \in EditKinds /\ Edited(p)) =>
      inconsistency_pub'[p] = CurrentNotice(database', p)

\* An edit of p publishes the inconsistency set p has after it when the set
\* is not empty, and nothing when it is empty.
C33_NonEmpty ==
  \A p \in Registered :
    (lastOp'.op \in EditKinds /\ Edited(p)) =>
      IF database'.entries[p].ranges # {}
        THEN inconsistency_pub'[p] = CurrentNotice(database', p)
        ELSE inconsistency_pub'[p] = inconsistency_pub[p]

\* The latest notice of a participant that has inconsistency ranges reports
\* them.
C33_Latest ==
  \A p \in Registered :
    database.entries[p].ranges # {} =>
      inconsistency_pub[p] = CurrentNotice(database, p)

\* C33 as stated: after every edit handled for a participant p the node
\* publishes the current inconsistency set of p, so that the latest notice
\* for p always tells p's current ranges, also after a gap-filling edit has
\* cleared them.
Cex_C33 == [][C33_Always]_vars

\* C33: after every edit handled for a participant p the node publishes the
\* current inconsistency set of p when it is not empty and nothing when it
\* is empty, so that the latest notice for p tells p's current ranges
\* whenever p has any.
Thm_C33 == [](C33_Latest) /\ [][C33_NonEmpty]_vars

\* A gap-filling edit has cleared the ranges of a participant, and the
\* latest notice for it still reports a range.
Wit_C33 ==
  \E p \in Registered :
    /\ lastOp.op \in EditKinds
    /\ lastOp.class = "fill"
    /\ database.entries[p].ranges = {}
    /\ inconsistency_pub[p] # None
    /\ inconsistency_pub[p][1].ranges # {}

\* ------------------------------------------------------------------------
\* C34
\* ------------------------------------------------------------------------

\* The participants of the live negotiation n in the record ac.
ParticipantsOf(ac, n) == ac.negotiations[n].negotiation.participants

\* The live negotiations of ac' that ac does not hold with the same
\* participants: the ones a step opened or extended.
OpenedOrExtended ==
  {n \in DOMAIN active_conflicts'.negotiations :
     \/ n \notin DOMAIN active_conflicts.negotiations
     \/ ParticipantsOf(active_conflicts', n) # ParticipantsOf(active_conflicts, n)}

\* An insertion publishes nothing; it notes the negotiation it opened or
\* extended, and nothing when the participants of the conflict set are all
\* negotiating already.
C34_Insert ==
  lastOp'.op = "insert" =>
    /\ conflict_notices' = conflict_notices
    /\ conflict_check'.new_negotiations =
         conflict_check.new_negotiations \cup OpenedOrExtended
    /\ Cardinality(OpenedOrExtended) <= 1
    /\ lastOp'.conflict \subseteq DOMAIN active_conflicts.version
         => /\ OpenedOrExtended = {}
            /\ conflict_check'.new_negotiations = conflict_check.new_negotiations

\* A notice is for one of the noted negotiations, carries its version and its
\* participants, and takes it off the notes.
C34_Notify ==
  conflict_notices' # conflict_notices =>
    /\ lastOp'.op = "notice"
    /\ \E n \in conflict_check.new_negotiations :
         /\ Live(n)
         /\ conflict_notices' =
              Append(conflict_notices,
                     [conflict_version |-> n,
                      participants |-> ParticipantsOf(active_conflicts, n)])
         /\ conflict_check'.new_negotiations =
              conflict_check.new_negotiations \ {n}

\* A pass starts with no note left over from the pass before it.
C34_Pass ==
  lastOp'.op = "conflict_check" =>
    /\ conflict_check.new_negotiations = {}
    /\ conflict_check'.new_negotiations = {}

\* The notes are kept only by the insertions and the notices of a pass.
C34_Notes ==
  /\ conflict_check.pc = "wait" => conflict_check.new_negotiations = {}
  /\ conflict_check.pc = "notify" => conflict_check.new_negotiations # {}

ConcludedVersions == {conflict_conclusions[i].conflict_version :
                i \in DOMAIN conflict_conclusions}

\* The ConflictNotice a step published.
C38_Notice == conflict_notices'[Len(conflict_notices')]

\* A published notice is for a negotiation that is live and has no
\* conclusion, and carries the participants of that negotiation.
C38_Live ==
  conflict_notices' # conflict_notices =>
    /\ Live(C38_Notice.conflict_version)
    /\ C38_Notice.conflict_version \notin ConcludedVersions
    /\ C38_Notice.participants =
         ParticipantsOf(active_conflicts, C38_Notice.conflict_version)

\* C38: the conflict thread reads the participants of a negotiation it
\* inserted, and publishes its ConflictNotice, only while the negotiation is
\* live: no notice is published for a conflict_version whose
\* ConflictConclusion is already published, whatever negotiation messages
\* are handled between the insertion and the notice.
Cex_C38 == [][C38_Live]_vars

\* Negotiation 0 was announced, then extended by a later pass and concluded
\* before the notice of the extension, which follows the ConflictConclusion:
\* the negotiation was removed between its insertion and the notice.
Wit_C38 ==
  /\ lastOp.op = "notice"
  /\ Len(conflict_notices) = 2
  /\ conflict_notices[1].conflict_version = 0
  /\ conflict_notices[2].conflict_version = 0
  /\ 0 \in ConcludedVersions
  /\ ~Live(0)

\* ------------------------------------------------------------------------
\* C35
\* ------------------------------------------------------------------------

\* With the quit flag set, the thread at the head of its loop starts no pass
\* and no insertion: it stays where it is or leaves the loop.
C35_NoNewPass ==
  (conflict_check_quit /\ conflict_check.pc = "wait") =>
    /\ conflict_check' = conflict_check
         \/ conflict_check' = [conflict_check EXCEPT !.pc = "exited"]
    /\ last_known_participants_version' = last_known_participants_version
    /\ conflict_notices' = conflict_notices

\* The thread that has left its loop holds no mutex and has no conflict or
\* notice of a pass left; the destructor returns only when no thread runs.
C35_Exit ==
  /\ conflict_check.pc = "exited" =>
       /\ conflict_check_quit
       /\ database_mutex # Some("conflict_check_thread")
       /\ active_conflicts_mutex # Some("conflict_check_thread")
       /\ conflict_check.conflicts = << >>
       /\ conflict_check.new_negotiations = {}
  /\ destructor = "returned" =>
       conflict_check.pc \in {"unstarted", "exited"}

\* The destructor of a node whose setup never ran returns without joining.
C35_Unstarted ==
  (lastOp'.op = "destroy" /\ conflict_check.pc = "unstarted") =>
    /\ destructor' = "returned"
    /\ conflict_check' = conflict_check

\* C35: once the destructor has set the quit flag the conflict-check thread
\* starts no new pass and leaves its loop, holding no lock, as soon as it is
\* back at the head of the loop, and the join of the destructor returns; the
\* destructor of a node whose setup never ran returns without joining.
Thm_C35 ==
  /\ [](C35_Exit)
  /\ [][C35_NoNewPass /\ C35_Unstarted]_vars
  /\ (destructor = "join") ~> (destructor = "returned")

\* The destructor has joined a thread that left its loop after a notice,
\* with a change of the database it has not checked.
Wit_C35 ==
  /\ destructor = "returned"
  /\ conflict_check.pc = "exited"
  /\ conflict_notices # << >>
  /\ conflict_check.last_checked_version # database.version

\* ------------------------------------------------------------------------
\* C36
\* ------------------------------------------------------------------------

\* A FailOverEvent gives the Transport a new client for each of the two
\* services and leaves everything else as it was.
C36_Frame ==
  lastOp'.op = "fail_over" =>
    /\ service_clients'.register_client # service_clients.register_client
    /\ service_clients'.unregister_client # service_clients.unregister_client
    /\ UNCHANGED << stub_map, writer_participants, itinerary_pub,
                    retransmit_calls, register_call >>
    /\ UNCHANGED << dbVars, queryVars, threadVars, negotiationVars, nodeVars,
                    spinning, database_mutex >>

\* An edit carries the version that follows the one its participant
\* allocated last, whatever clients the Transport holds, and replaces none.
C36_Next ==
  lastOp'.op = "writer_edit" =>
    /\ lastOp'.call.version =
         Inc(writer_participants[lastOp'.participant].version)
    /\ itinerary_pub'[1].itinerary_version = lastOp'.call.version
    /\ service_clients' = service_clients

\* C36: a FailOverEvent replaces the register and unregister clients of the
\* Writer and changes nothing else: the requester table and the version
\* counter and log of every participant are as before, so the next edit
\* carries the version that follows the last one sent before the fail-over.
Thm_C36 == [][C36_Frame /\ C36_Next]_vars

\* A fail-over was handled while a participant had sent two edits and had a
\* live requester.
Wit_C36 ==
  /\ lastOp.op = "fail_over"
  /\ service_clients.register_client = 1
  /\ \E p \in DOMAIN writer_participants :
       /\ writer_participants[p].version = 2
       /\ Len(writer_participants[p].log) = 2
       /\ stub_map[p]

\* ------------------------------------------------------------------------
\* C37
\* ------------------------------------------------------------------------

\* The handler that holds mutex m, if any.
Mutex(m) ==
  IF m = "database_mutex" THEN database_mutex ELSE active_conflicts_mutex

\* No handler locks database_mutex while it holds active_conflicts_mutex.
C37_Order ==
  \A h \in Handlers :
    (database_mutex' = Some(h) /\ database_mutex # Some(h)) =>
      active_conflicts_mutex # Some(h)

\* A handler that holds a mutex and waits for the other one waits for a
\* handler that has all its mutexes and so runs to its return: no two
\* handlers wait for each other.
C37_NoDeadlock ==
  \A h \in Handlers, m \in {"database_mutex", "active_conflicts_mutex"} :
    (Held(h) # {} /\ Wants(h, m) /\ Mutex(m) # None) =>
      /\ Mutex(m)[1] \in Handlers
      /\ HoldsAll(Mutex(m)[1])
      /\ \A n \in {"database_mutex", "active_conflicts_mutex"} :
           ~Wants(Mutex(m)[1], n)

\* C37: the two mutexes are locked in one order: a handler may lock
\* active_conflicts_mutex while it holds database_mutex, none locks
\* database_mutex while it holds active_conflicts_mutex, and no reachable
\* state has the itinerary handlers, the negotiation handlers and the
\* conflict-check thread waiting for each other.
Thm_C37 == [](C37_NoDeadlock) /\ [][C37_Order]_vars

\* An itinerary handler holds database_mutex and waits for
\* active_conflicts_mutex, which a negotiation handler holds, while the
\* conflict-check thread has a conflict to insert and another itinerary
\* handler waits for database_mutex.
Wit_C37 ==
  /\ database_mutex = Some("itinerary_set")
  /\ active_conflicts_mutex = Some("receive_forfeit")
  /\ Wants("itinerary_set", "active_conflicts_mutex")
  /\ Wants("itinerary_clear", "database_mutex")
  /\ conflict_check.pc = "insert"

\* ------------------------------------------------------------------------
\* C39
\* ------------------------------------------------------------------------

\* retransmit is called on a requester that is alive.
C39_Live ==
  lastOp'.op = "retransmit" =>
    /\ lastOp'.class = "live"
    /\ lastOp'.msg.participant \in DOMAIN stub_map
    /\ stub_map[lastOp'.msg.participant]

\* A notice for a participant whose requester has expired removes the entry
\* of the participant and does nothing else; a make puts the new requester
\* in the place of whatever the table held.
C39_Table ==
  /\ (lastOp'.op = "check_inconsistencies" /\ lastOp'.class = "expired")
       => /\ lastOp'.msg.participant \notin DOMAIN stub_map'
          /\ retransmit_calls' = << >>
          /\ itinerary_pub' = << >>
  /\ lastOp'.op = "make"
       => /\ lastOp'.participant \in DOMAIN stub_map'
          /\ stub_map'[lastOp'.participant]

\* C39: the inconsistency dispatcher of the Writer never calls retransmit on
\* a requester that has been destroyed, whatever the interleaving of the
\* dispatch of a notice with the destruction of the requester on another
\* thread; a notice for an expired requester removes its entry and a later
\* make overrides the entry.
Cex_C39 == [][C39_Live /\ C39_Table]_vars

\* retransmit was called for a notice whose requester was destroyed between
\* lock() and the call.
Wit_C39 ==
  /\ lastOp.op = "retransmit"
  /\ lastOp.class = "destroyed"
  /\ retransmit_calls # << >>
  /\ ~stub_map[lastOp.msg.participant]

\* ------------------------------------------------------------------------
\* C40
\* ------------------------------------------------------------------------

\* An Adapter that make has returned holds the mirror manager of the future
\* and the negotiation built from its snapshot handle.
C40_Made ==
  adapter.pc = "made" =>
    /\ adapter.mirror_ready
    /\ adapter.mirror_manager # None
    /\ adapter.negotiation =
         Some([snapshot_handle |-> adapter.mirror_manager[1].snapshot_handle])

\* A round of the start-up loop leaves the loop exactly when the services
\* and the mirror future are ready, wait_time has elapsed or the context is
\* not ok; nothing else leaves it, and leaving it does not return.
C40_Loop ==
  /\ lastOp'.op = "startup_loop" =>
       (adapter'.pc = "get" <=>
          \/ /\ adapter.services_ready =
                  {"register_client", "unregister_client"}
             /\ adapter.mirror_ready
          \/ adapter.now >= adapter.wait_time
          \/ ~adapter.ok)
  /\ (adapter.pc = "loop" /\ adapter'.pc # "loop") =>
       /\ lastOp'.op = "startup_loop"
       /\ adapter'.pc = "get"

\* Past the loop the construction waits for the mirror future.
C40_Block ==
  (adapter.pc = "get" /\ ~adapter.mirror_ready) =>
    /\ adapter'.pc = "get"
    /\ adapter'.mirror_manager = None
    /\ adapter'.negotiation = None

\* A fleet is appended once, with the writer, the snapshot handle and the
\* negotiation of the Adapter, which no step replaces.
C40_Fleet ==
  /\ adapter'.fleets # adapter.fleets =>
       /\ lastOp'.op = "add_fleet"
       /\ adapter'.fleets =
            Append(adapter.fleets,
                   [name |-> lastOp'.class, writer |-> "writer",
                    snapshot_handle |->
                      adapter.mirror_manager[1].snapshot_handle,
                    negotiation |-> adapter.negotiation])
  /\ adapter.pc = "made" =>
       /\ adapter'.mirror_manager = adapter.mirror_manager
       /\ adapter'.negotiation = adapter.negotiation

\* C40: Adapter::make returns an Adapter only after the mirror manager has
\* been obtained and the negotiation built from it: the start-up loop stops
\* when the services of the writer and the mirror future are ready, when
\* wait_time has elapsed or when the context is not ok, and the construction
\* then waits for the mirror future; every fleet added by add_fleet shares
\* the writer, the snapshot handle and the negotiation of the Adapter and is
\* appended once.
Thm_C40 == [](C40_Made) /\ [][C40_Loop /\ C40_Block /\ C40_Fleet]_vars

\* The loop ran out of wait_time with one service of the writer not ready,
\* the mirror manager was obtained, and two fleets were added.
Wit_C40 ==
  /\ adapter.pc = "made"
  /\ adapter.services_ready = {"register_client"}
  /\ adapter.wait_time > 0
  /\ adapter.now >= adapter.wait_time
  /\ Len(adapter.fleets) = 2
  /\ adapter.fleets[1].negotiation = adapter.fleets[2].negotiation

================================================================================
